---- MODULE Spec2Model ----
(***************************************************************************)
(* ChatMyApi backend: the request-resolution and execution pipeline of     *)
(* backend/api_call_executor.py (endpoint matcher, parameter resolver,     *)
(* auth injector, response cache, call dispatcher).                        *)
(*                                                                         *)
(* Conventions.                                                            *)
(*   - A Python str whose characters matter (paths, URLs) is a sequence of *)
(*     one-character strings; other strings are TLA+ strings.              *)
(*   - A Python dict is a function whose DOMAIN is its key set; the one    *)
(*     dict whose iteration order the code depends on (SimpleCache._store) *)
(*     is a sequence of entries in insertion order.                        *)
(*   - Optional[List[str]] is <<>> for None and <<S>> for a list with the  *)
(*     element set S.                                                      *)
(*   - Python None as a value is the record PyNone.                        *)
(***************************************************************************)
EXTENDS Integers, Sequences, FiniteSets, TLC

\* ------------------------------------------------------------------ bounds
\* SimpleCache(maxsize, ttl) is built with these two arguments; the module
\* instance of the source uses 64 and 120, the model a small cache.
MaxSize == 2
Ttl == 1

\* time.time() never reads more than MaxTime in the model.
MaxTime == Ttl + 2

VARIABLES
    store,      \* SimpleCache._store: <<[key, ts, value], ...>> in dict order
    now,        \* the wall clock time.time() reads
    lastOp,     \* the last SimpleCache call made directly: [op, key, t, ret]
    setAt,      \* history: key -> time of its last insert (-1: never)
    insLog,     \* history: keys inserted so far, while distinct and unexpired
    insOk,      \* history: every insert so far was of a new key, none expired
    threads,    \* the request threads inside SimpleCache: thread -> its frame
    pc,         \* execute_api_call: "idle", "attempt" (a request is in flight), "done"
    trust_env,  \* the loop variable of the dispatch loop
    req,        \* the arguments of the running call, as given: [api, call, api_key]
    call,       \* the caller's APICall object (its endpoint is rewritten)
    loc,        \* locals: headers, query, body, url, cache_key, request_details
    attempts,   \* the attempts list
    result,     \* what the call returned or raised: [status, parsed, metadata, detail]
    sent,       \* the network: every request client.request() was given in this call
    cacheOps,   \* history: the response_cache methods this call has invoked
    store0,     \* history: _store when this call began
    origin,     \* history: cache key -> the request last stored under it, its body, when
    calls,      \* history: execute_api_call invocations so far
    llm,        \* generate_api_call: what the request to Ollama gave
    norm,       \* generate_api_call: what _normalize_api_payload returned or raised
    gen,        \* generate_api_call: the APICall returned, or the exception raised
    response_json,  \* extract_relevant_items: its first argument
    context,    \* extract_relevant_items: its second argument
    insights,   \* extract_relevant_items: the dict it returned
    raw_path,   \* _normalize_path: its argument
    normal      \* _normalize_path: what it returned for raw_path, for that, for raw_path + "/"

cacheVars == <<store, now>>

unitVars == <<lastOp, setAt, insLog, insOk, threads>>

pureVars == <<llm, norm, gen, response_json, context, insights, raw_path, normal>>

callVars == <<pc, trust_env, req, call, loc, attempts, result, sent, cacheOps, store0>>

vars == <<store, now, lastOp, setAt, insLog, insOk, threads, pc, trust_env, req, call, loc,
          attempts, result, sent, cacheOps, store0, origin, calls,
          llm, norm, gen, response_json, context, insights, raw_path, normal>>

\* ------------------------------------------------------------ Python values
PyNone == [kind |-> "none", v |-> ""]

\* ------------------------------------------------------------- SimpleCache
StoreKeys(s) == {s[i].key : i \in 1..Len(s)}

StoreIndex(s, key) == CHOOSE i \in 1..Len(s) : s[i].key = key

RemoveAt(s, i) == SubSeq(s, 1, i - 1) \o SubSeq(s, i + 1, Len(s))

\* self._store.pop(key, None)
StorePop(s, key) == IF key \in StoreKeys(s) THEN RemoveAt(s, StoreIndex(s, key)) ELSE s

\* self._store[key] = (ts, value): an existing key keeps its place in the dict
StorePut(s, key, ts, value) ==
    IF key \in StoreKeys(s)
    THEN [s EXCEPT ![StoreIndex(s, key)] = [key |-> key, ts |-> ts, value |-> value]]
    ELSE Append(s, [key |-> key, ts |-> ts, value |-> value])

Expired(e, t, ttl) == t - e.ts > ttl

\* min(self._store.items(), key=lambda item: item[1][0])[0]: the first entry,
\* in dict order, among those with the least timestamp
OldestIndex(s) ==
    CHOOSE i \in 1..Len(s) :
        /\ \A j \in 1..Len(s) : s[i].ts <= s[j].ts
        /\ \A j \in 1..(i - 1) : s[j].ts > s[i].ts

RECURSIVE EvictOldest(_, _)
EvictOldest(s, maxsize) ==
    IF Len(s) > maxsize THEN EvictOldest(RemoveAt(s, OldestIndex(s)), maxsize) ELSE s

DropExpired(s, t, ttl) == SelectSeq(s, LAMBDA e : ~Expired(e, t, ttl))

\* SimpleCache._prune, time.time() reading t
Prune(s, t) == EvictOldest(DropExpired(s, t, Ttl), MaxSize)

\* SimpleCache.get: _prune reads the clock at t1, the expiry check at t2 >= t1.
\* The result is [ret, store]: the value returned (PyNone when absent) and the
\* store left behind.
CacheGetNoExpiry(s, key, t1, t2) ==
    IF key \in StoreKeys(s)
    THEN [ret |-> s[StoreIndex(s, key)].value, store |-> s]
    ELSE [ret |-> PyNone, store |-> s]

CacheLookup(p, key, t2) ==
    IF key \notin StoreKeys(p)
    THEN [ret |-> PyNone, store |-> p]
    ELSE IF Expired(p[StoreIndex(p, key)], t2, Ttl)
         THEN [ret |-> PyNone, store |-> StorePop(p, key)]
         ELSE [ret |-> p[StoreIndex(p, key)].value, store |-> p]

CacheGet(s, key, t1, t2) == CacheLookup(Prune(s, t1), key, t2)

\* SimpleCache.set: the entry is stamped at t1, _prune reads the clock at t2
CacheSetNoEvict(s, key, value, t1, t2) == DropExpired(StorePut(s, key, t1, value), t2, Ttl)

CacheSet(s, key, value, t1, t2) == Prune(StorePut(s, key, t1, value), t2)

\* ---------------------------------------------------------------- strings
RECURSIVE RStrip(_, _)
\* str.rstrip(c)
RStrip(s, c) ==
    IF s # <<>> /\ s[Len(s)] = c THEN RStrip(SubSeq(s, 1, Len(s) - 1), c) ELSE s

\* The least index >= from of a character of s in the set cs, Len(s) + 1 if none
FirstOf(s, cs, from) ==
    IF \E i \in from..Len(s) : s[i] \in cs
    THEN CHOOSE i \in from..Len(s) : s[i] \in cs /\ \A j \in from..(i - 1) : s[j] \notin cs
    ELSE Len(s) + 1

\* A URL scheme is one token ("https:") in the model; paths carry none.
IsScheme(c) == c \in {"http:", "https:"}

AfterScheme(u) == IF u # <<>> /\ IsScheme(u[1]) THEN Tail(u) ELSE u

HasNetloc(r) == Len(r) >= 2 /\ r[1] = "/" /\ r[2] = "/"

\* urllib.parse.urlsplit(u).netloc
UrlNetloc(u) ==
    LET r == AfterScheme(u)
    IN  IF HasNetloc(r) THEN SubSeq(r, 3, FirstOf(r, {"/", "?", "#"}, 3) - 1) ELSE <<>>

\* urllib.parse.urlsplit(u).path: what follows the scheme and the //netloc, up
\* to the first "#" and, in that, the first "?"
UrlPath(u) ==
    LET r == AfterScheme(u)
        rest == IF HasNetloc(r) THEN SubSeq(r, FirstOf(r, {"/", "?", "#"}, 3), Len(r)) ELSE r
        nofrag == SubSeq(rest, 1, FirstOf(rest, {"#"}, 1) - 1)
    IN  SubSeq(nofrag, 1, FirstOf(nofrag, {"?"}, 1) - 1)

\* _normalize_path
_normalize_path(path) ==
    LET cleaned == RStrip(UrlPath(path), "/")
    IN  IF cleaned = <<>> THEN <<"/">> ELSE cleaned

\* urllib.parse.quote(str(v), safe=""): letters, digits and "_.-~" are kept,
\* every other character becomes its %XX escape
QuoteChar(c) ==
    CASE c = "/" -> <<"%", "2", "F">>
      [] c = "?" -> <<"%", "3", "F">>
      [] c = "#" -> <<"%", "2", "3">>
      [] c = "{" -> <<"%", "7", "B">>
      [] c = "}" -> <<"%", "7", "D">>
      [] c = "%" -> <<"%", "2", "5">>
      [] OTHER -> <<c>>

RECURSIVE Quote(_)
Quote(v) == IF v = <<>> THEN <<>> ELSE QuoteChar(Head(v)) \o Quote(Tail(v))

\* ------------------------------------------------------------ path matching
\* re.sub(r"{[^/]+}", "[^/]+", example): at a "{", the greedy [^/]+ runs to the
\* last "}" of the same path segment that leaves it at least one character.
\* The pattern is a sequence of regex atoms: "SEG" is [^/]+, "." is the regex
\* dot (the template is not re.escape'd), any other character is a literal.
PlaceholderEnd(s, i) ==
    LET segEnd == FirstOf(s, {"/"}, i + 1) - 1
        ends == {j \in (i + 2)..segEnd : s[j] = "}"}
    IN  IF ends = {} THEN 0 ELSE CHOOSE j \in ends : \A k \in ends : k <= j

RECURSIVE TemplatePatternFrom(_, _)
TemplatePatternFrom(s, i) ==
    IF i > Len(s) THEN <<>>
    ELSE IF s[i] = "{" /\ PlaceholderEnd(s, i) # 0
         THEN <<"SEG">> \o TemplatePatternFrom(s, PlaceholderEnd(s, i) + 1)
         ELSE <<s[i]>> \o TemplatePatternFrom(s, i + 1)

TemplatePattern(example) == TemplatePatternFrom(example, 1)

RECURSIVE FullMatch(_, _)
\* re.fullmatch(pattern, s) is not None
FullMatch(p, s) ==
    IF p = <<>> THEN s = <<>>
    ELSE IF Head(p) = "SEG"
         THEN \E k \in 1..Len(s) :
                  /\ \A i \in 1..k : s[i] # "/"
                  /\ FullMatch(Tail(p), SubSeq(s, k + 1, Len(s)))
         ELSE /\ s # <<>>
              /\ (Head(p) = "." \/ Head(p) = Head(s))
              /\ FullMatch(Tail(p), Tail(s))

\* _paths_match
_paths_match_prefix(call_path, example_path) ==
    \E k \in 0..Len(_normalize_path(call_path)) :
        FullMatch(TemplatePattern(_normalize_path(example_path)),
                  SubSeq(_normalize_path(call_path), 1, k))

_paths_match(call_path, example_path) ==
    FullMatch(TemplatePattern(_normalize_path(example_path)), _normalize_path(call_path))

\* _resolve_endpoint: re.sub(r"{([^}]+)}", replace, call.endpoint). At a "{" the
\* key runs to the next "}", and must not be empty. The result is
\* [ok, missing, path]: a key absent from path_params raises HTTPException 400.
ResolvePrepend(r, x) == IF r.ok THEN [r EXCEPT !.path = x \o @] ELSE r

RECURSIVE ResolveFrom(_, _, _)
ResolveFrom(s, i, pp) ==
    IF i > Len(s) THEN [ok |-> TRUE, missing |-> <<>>, path |-> <<>>]
    ELSE LET j == FirstOf(s, {"}"}, i + 1)
         IN  IF s[i] = "{" /\ j <= Len(s) /\ j > i + 1
             THEN LET key == SubSeq(s, i + 1, j - 1)
                  IN  IF key \notin DOMAIN pp
                      THEN [ok |-> FALSE, missing |-> key, path |-> <<>>]
                      ELSE ResolvePrepend(ResolveFrom(s, j + 1, pp), Quote(pp[key]))
             ELSE ResolvePrepend(ResolveFrom(s, i + 1, pp), <<s[i]>>)

_resolve_endpoint(endpoint, path_params) == ResolveFrom(endpoint, 1, path_params)

\* ------------------------------------------------------------------- dicts
EmptyDict == <<>>

DictGet(d, k, default) == IF k \in DOMAIN d THEN d[k] ELSE default

\* d[k] = v
DictSet(d, k, v) == [x \in DOMAIN d \cup {k} |-> IF x = k THEN v ELSE d[x]]

\* d.setdefault(k, v)
DictSetDefault(d, k, v) == IF k \in DOMAIN d THEN d ELSE DictSet(d, k, v)

\* d.update(e)
DictUpdate(d, e) == [x \in DOMAIN d \cup DOMAIN e |-> IF x \in DOMAIN e THEN e[x] ELSE d[x]]

\* {k: v for k, v in d.items() if k in keep}
DictRestrict(d, keep) == [x \in DOMAIN d \cap keep |-> d[x]]

\* str.lower() on the names the model uses
Lower(k) ==
    CASE k = "Authorization" -> "authorization"
      [] k = "Accept" -> "accept"
      [] k = "X-RapidAPI-Key" -> "x-rapidapi-key"
      [] k = "X-RapidAPI-Host" -> "x-rapidapi-host"
      [] k = "RestCountries" -> "restcountries"
      [] k = "API_KEY" -> "api_key"
      [] OTHER -> k

\* ------------------------------------------------------- the pipeline steps
ALLOWED_METHODS == {"GET", "POST", "PUT", "DELETE"}

Mask == "***"

\* _redact_sensitive_data
SensitiveKeys(additional_keys) ==
    {"authorization", "api_key", "apikey", "token", "key"} \cup {Lower(k) : k \in additional_keys}

_redact_sensitive_data(data, additional_keys) ==
    [k \in DOMAIN data |->
        IF Lower(k) \in SensitiveKeys(additional_keys) THEN Mask ELSE data[k]]

\* _validate_endpoint: the index of the first declared endpoint that matches the
\* call's path and method, 0 when next(...) yields None
EndpointMatches(ep, endpoint, method) ==
    _paths_match(endpoint, ep.path) /\ ep.method = method

_validate_endpoint(api_def, endpoint, method) ==
    LET eps == api_def.example_endpoints
        hits == {i \in 1..Len(eps) : EndpointMatches(eps[i], endpoint, method)}
    IN  IF hits = {} THEN 0 ELSE CHOOSE i \in hits : \A j \in hits : i <= j

\* _filter_params: "not allowed" holds for None and for the empty list alike
_filter_params(params, allowed) ==
    IF allowed = <<>> \/ allowed[1] = {} THEN params ELSE DictRestrict(params, allowed[1])

DefaultFields == "name,capital,region,cca2,cca3"

\* _apply_api_defaults
_apply_api_defaults(api_def, matched_endpoint, query) ==
    IF /\ Lower(api_def.name) = "restcountries"
       /\ matched_endpoint.allowed_query_params # <<>>
       /\ "fields" \in matched_endpoint.allowed_query_params[1]
       /\ "fields" \notin DOMAIN query
    THEN DictSet(query, "fields", DefaultFields)
    ELSE query

\* _build_cache_key: json.dumps(..., sort_keys=True) of these five parts; the
\* serialization is one-to-one on them, so the key is the record of the parts
_build_cache_key_with_auth(api_def, endpoint, method, query, body) ==
    [api |-> api_def.name, endpoint |-> _normalize_path(endpoint), method |-> method,
     query |-> query, body |-> body]

_build_cache_key(api_def, endpoint, method, query, body) ==
    [api |-> api_def.name,
     endpoint |-> _normalize_path(endpoint),
     method |-> method,
     query |-> DictRestrict(query, DOMAIN query \ {api_def.auth_key_name}),
     body |-> body]

Bearer(api_key) == "Bearer " \o api_key

\* The detail of an HTTPException: a message and the values formatted into it
Detail(msg, args) == [msg |-> msg, args |-> args]

NoDetail == Detail("", <<>>)

\* The host of a netloc, as the header value (a string)
HostName(netloc) == IF netloc = <<>> THEN "" ELSE netloc[1]



\* (what the injector must not do: the credential is assigned, not set by default)
_apply_auth_overwriting(api_def, headers, query, api_key) ==
    LET ok(h, q) == [status |-> 0, detail |-> NoDetail, headers |-> h, query |-> q]
        err(st, d) == [status |-> st, detail |-> Detail(d, <<>>), headers |-> headers,
                       query |-> query]
    IN  IF api_def.auth_type = "none" THEN ok(headers, query)
        ELSE IF api_key = "" THEN err(401, "API key not configured for this API")
        ELSE IF api_def.auth_type = "header"
             THEN ok(DictSet(headers, "Authorization", Bearer(api_key)), query)
        ELSE IF api_def.auth_type = "query"
             THEN ok(headers, DictSet(query, api_def.auth_key_name, api_key))
        ELSE IF api_def.auth_type = "rapidapi"
             THEN IF UrlNetloc(api_def.base_url) = <<>>
                  THEN err(400, "RapidAPI base_url is missing a host")
                  ELSE ok(DictSet(DictSet(headers, "X-RapidAPI-Key", api_key),
                                  "X-RapidAPI-Host", HostName(UrlNetloc(api_def.base_url))),
                          query)
        ELSE ok(DictSet(headers, "Authorization", Bearer(api_key)), query)

\* (what the injector must not do: without a secret the call goes on unauthenticated)
_apply_auth_lenient(api_def, headers, query, api_key) ==
    IF api_def.auth_type = "none" \/ api_key = ""
    THEN [status |-> 0, detail |-> NoDetail, headers |-> headers, query |-> query]
    ELSE IF api_def.auth_type = "query"
    THEN [status |-> 0, detail |-> NoDetail, headers |-> headers,
          query |-> DictSetDefault(query, api_def.auth_key_name, api_key)]
    ELSE [status |-> 0, detail |-> NoDetail,
          headers |-> DictSetDefault(headers, "Authorization", Bearer(api_key)),
          query |-> query]

\* _apply_auth: [status, detail, headers, query]; status 0 when it returns, else
\* the status of the HTTPException it raises. "not api_key" holds for None and
\* for the empty string, both "" in the model.
_apply_auth(api_def, headers, query, api_key) ==
    LET ok(h, q) == [status |-> 0, detail |-> NoDetail, headers |-> h, query |-> q]
        err(st, d) == [status |-> st, detail |-> Detail(d, <<>>), headers |-> headers,
                       query |-> query]
    IN  IF api_def.auth_type = "none" THEN ok(headers, query)
        ELSE IF api_key = "" THEN err(401, "API key not configured for this API")
        ELSE IF api_def.auth_type = "header"
             THEN ok(DictSetDefault(headers, "Authorization", Bearer(api_key)), query)
        ELSE IF api_def.auth_type = "query"
             THEN ok(headers, DictSetDefault(query, api_def.auth_key_name, api_key))
        ELSE IF api_def.auth_type = "rapidapi"
             THEN IF UrlNetloc(api_def.base_url) = <<>>
                  THEN err(400, "RapidAPI base_url is missing a host")
                  ELSE ok(DictSetDefault(DictSetDefault(headers, "X-RapidAPI-Key", api_key),
                                         "X-RapidAPI-Host", HostName(UrlNetloc(api_def.base_url))),
                          query)
        ELSE ok(DictSetDefault(headers, "Authorization", Bearer(api_key)), query)

NoLoc ==
    [headers |-> <<>>, query |-> <<>>, body |-> <<>>, url |-> <<>>, cache_key |-> <<>>,
     request_details |-> <<>>, matched |-> 0]

\* execute_api_call, lines 192-217: everything up to the cache lookup, as
\* [status, detail, endpoint, loc]: status 0 when the request is prepared, else
\* the HTTPException raised; endpoint is call.endpoint as the step leaves it.
PrepareFailed(st, d, ep) == [status |-> st, detail |-> d, endpoint |-> ep, loc |-> NoLoc]

SensitiveNames(api_def) ==
    IF api_def.auth_key_name # "" THEN {api_def.auth_key_name} ELSE {}

\* Lines 208-217: the URL, the cache key and the redacted request details
PrepareDetails(api_def, c, path, m, headers, query, body, url) ==
    [status |-> 0, detail |-> NoDetail, endpoint |-> path,
     loc |->
       [headers |-> headers,
        query |-> query,
        body |-> body,
        url |-> url,
        cache_key |-> _build_cache_key(api_def, path, c.method, query, body),
        request_details |->
          [url |-> url,
           method |-> c.method,
           headers |-> _redact_sensitive_data(headers, SensitiveNames(api_def)),
           query |-> _redact_sensitive_data(query, SensitiveNames(api_def)),
           body |-> _redact_sensitive_data(body, SensitiveNames(api_def))],
        matched |-> m]]

\* Line 206: _apply_auth has run
PrepareAuthed(api_def, c, path, m, body, auth) ==
    IF auth.status # 0
    THEN PrepareFailed(auth.status, auth.detail, path)
    ELSE PrepareDetails(api_def, c, path, m, auth.headers, auth.query, body,
                        RStrip(api_def.base_url, "/") \o path)

\* Lines 200-206: headers, filtered query and body, defaults, auth
PrepareParams(api_def, c, api_key, path, m, ep) ==
    PrepareAuthed(api_def, c, path, m,
                  _filter_params(c.body, ep.allowed_body_params),
                  _apply_auth(api_def,
                              DictUpdate("Accept" :> "application/json", c.headers),
                              _apply_api_defaults(api_def, ep,
                                  _filter_params(c.query, ep.allowed_query_params)),
                              api_key))

\* Line 198: _validate_endpoint has run
PrepareMatched(api_def, c, api_key, path, m) ==
    IF m = 0
    THEN PrepareFailed(400, Detail("Endpoint or method not recognized for this API", <<>>), path)
    ELSE PrepareParams(api_def, c, api_key, path, m, api_def.example_endpoints[m])

\* Lines 195-196: _resolve_endpoint has run
PrepareResolved(api_def, c, api_key, res) ==
    IF ~res.ok
    THEN PrepareFailed(400, Detail("Missing path parameter", res.missing), c.endpoint)
    ELSE PrepareMatched(api_def, c, api_key, res.path,
                        _validate_endpoint(api_def, res.path, c.method))

Prepare(api_def, c, api_key) ==
    IF c.method \notin ALLOWED_METHODS
    THEN PrepareFailed(400, Detail("Unsupported HTTP method", <<c.method>>), c.endpoint)
    ELSE PrepareResolved(api_def, c, api_key, _resolve_endpoint(c.endpoint, c.path_params))

\* The caller's APICall object as execute_api_call leaves it. The local headers
\* are a dict of the function's own (line 200); the locals query and body may
\* be the caller's own maps, and then what is written to them is written to
\* the call.
\* (what the local query must not be: the caller's map itself, as it would be
\* without the dict() of line 202 whenever nothing is filtered)
QueryIsCallersUncopied(c, ep) ==
    /\ c.query # <<>>
    /\ _filter_params(c.query, ep.allowed_query_params) = c.query
    /\ (ep.allowed_query_params = <<>> \/ ep.allowed_query_params[1] = {})

\* Line 202: dict(call.query or {}) is a new dict, and _filter_params returns
\* it or builds another
QueryIsCallers(c, ep) == FALSE

\* Line 204: "call.body or {}" is call.body when it is not empty, and
\* _filter_params returns its argument when there is no allow-list
BodyIsCallers(c, ep) ==
    /\ c.body # <<>>
    /\ (ep.allowed_body_params = <<>> \/ ep.allowed_body_params[1] = {})

\* Lines 202-206: the defaults and the secret are written to the local query
\* (_apply_auth leaves it alone when it raises); nothing is written to body
CallParams(api_def, c, api_key, ep) ==
    [c EXCEPT
       !.query = IF QueryIsCallers(c, ep)
                 THEN _apply_auth(api_def,
                                  DictUpdate("Accept" :> "application/json", c.headers),
                                  _apply_api_defaults(api_def, ep,
                                      _filter_params(c.query, ep.allowed_query_params)),
                                  api_key).query
                 ELSE @,
       !.body = IF BodyIsCallers(c, ep)
                THEN _filter_params(c.body, ep.allowed_body_params)
                ELSE @]

\* Line 198: when no endpoint matches, the call was written at line 196 only
CallMatched(api_def, c, api_key, m) ==
    IF m = 0 THEN c ELSE CallParams(api_def, c, api_key, api_def.example_endpoints[m])

\* Line 196: call.endpoint = resolved_endpoint, once _resolve_endpoint returned
CallResolved(api_def, c, api_key, res) ==
    IF ~res.ok
    THEN c
    ELSE CallMatched(api_def, [c EXCEPT !.endpoint = res.path], api_key,
                     _validate_endpoint(api_def, res.path, c.method))

\* Lines 192-206
CallAfter(api_def, c, api_key) ==
    IF c.method \notin ALLOWED_METHODS
    THEN c
    ELSE CallResolved(api_def, c, api_key, _resolve_endpoint(c.endpoint, c.path_params))

\* ------------------------------------------------------------ the upstream
\* response.text of a 2xx answer; "null", "{A}" and "{B}" are JSON documents
\* (the JSON null and two objects), "notjson" is not.
JsonTexts == {"null", "{A}", "{B}"}

TruncateLimit == 500

\* len(text) of the texts the model uses
TextLen(text) == IF text = "LONG" THEN TruncateLimit + 1 ELSE TruncateLimit

\* _truncate
_truncate(text) ==
    IF TextLen(text) <= TruncateLimit THEN text ELSE text \o "[:500]... (truncated)"

\* response.json(), and the fallback of lines 335-338
ParseBody(text) ==
    IF text \in JsonTexts
    THEN IF text = "null" THEN PyNone ELSE [kind |-> "json", v |-> text]
    ELSE [kind |-> "text", v |-> text]

\* What client.request() is given at lines 264-270
WireRequest(c, l, te) ==
    [method |-> c.method, url |-> l.url, params |-> l.query, headers |-> l.headers,
     json |-> l.body, trust_env |-> te]

\* An HTTPException carries a status code and a detail, nothing else
Raised(st, d) ==
    [raised |-> TRUE, status |-> st, detail |-> d, parsed |-> PyNone, metadata |-> <<>>]

Returned(parsed, metadata) ==
    [raised |-> FALSE, status |-> metadata.status_code, detail |-> NoDetail, parsed |-> parsed,
     metadata |-> metadata]

NoResult ==
    [raised |-> FALSE, status |-> 0, detail |-> NoDetail, parsed |-> PyNone, metadata |-> <<>>]

NoCall ==
    [endpoint |-> <<>>, method |-> "", headers |-> <<>>, path_params |-> <<>>,
     query |-> <<>>, body |-> <<>>]

NoReq == [api |-> <<>>, call |-> NoCall, api_key |-> ""]

\* The metadata of a cache hit, lines 238-246
CacheHitMetadata(c, l) ==
    [from_cache |-> TRUE, url |-> l.url, method |-> c.method, duration_ms |-> 0,
     status_code |-> 200, request |-> l.request_details,
     response_preview |-> "served-from-cache"]

\* (what the metadata must not say: the log cut to the last attempt, the
\* environment reported as trusted)
DispatchMetadataLastOnly(c, l, d, text, atts, te) ==
    [from_cache |-> FALSE, url |-> l.url, method |-> c.method, duration_ms |-> d,
     status_code |-> 200, request |-> l.request_details,
     response_preview |-> _truncate(text), attempts |-> <<atts[Len(atts)]>>,
     trust_env_used |-> TRUE]

\* The metadata of a dispatched call, lines 346-356
DispatchMetadata(c, l, d, text, atts, te) ==
    [from_cache |-> FALSE, url |-> l.url, method |-> c.method, duration_ms |-> d,
     status_code |-> 200, request |-> l.request_details,
     response_preview |-> _truncate(text), attempts |-> atts, trust_env_used |-> te]

\* The clock readings a second time.time() call may return
Later == {t \in now..(now + 1) : t <= MaxTime}

\* ------------------------------------------------------- execute_api_call
\* Lines 229-246: the cache lookup of a GET call, g being what get() gave
ExecuteLookup(c, l, t2, g) ==
    /\ store' = g.store
    /\ now' = t2
    /\ cacheOps' = <<"get">>
    /\ IF g.ret # PyNone
       THEN /\ pc' = "done"
            /\ result' = Returned(g.ret, CacheHitMetadata(c, l))
       ELSE /\ pc' = "attempt"
            /\ result' = NoResult

\* Lines 192-251 with p what the preparation gave
ExecutePrepared(api_def, c, api_key, p) ==
    /\ req' = [api |-> api_def, call |-> c, api_key |-> api_key]
    /\ call' = CallAfter(api_def, c, api_key)
    /\ loc' = p.loc
    /\ store0' = store
    /\ attempts' = <<>>
    /\ sent' = <<>>
    /\ trust_env' = TRUE
    /\ calls' = calls + 1
    /\ IF p.status # 0
       THEN /\ pc' = "done"
            /\ result' = Raised(p.status, p.detail)
            /\ cacheOps' = <<>>
            /\ UNCHANGED <<store, now>>
       ELSE IF c.method = "GET"
       THEN \E t2 \in Later :
                ExecuteLookup(c, p.loc, t2, CacheGet(store, p.loc.cache_key, now, t2))
       ELSE /\ pc' = "attempt"
            /\ result' = NoResult
            /\ cacheOps' = <<>>
            /\ UNCHANGED <<store, now>>

\* Lines 192-251: validate, resolve, filter, authenticate, look the cache up.
Execute(api_def, c, api_key) ==
    /\ pc = "idle"
    /\ ExecutePrepared(api_def, c, api_key, Prepare(api_def, c, api_key))
    /\ UNCHANGED <<unitVars, pureVars, origin>>

\* Lines 263-289 and 335-361: the request succeeds with a 2xx answer; the body
\* is parsed, a GET result is cached, the call returns.
Durations == {1}

AttemptSucceeds ==
    /\ pc = "attempt"
    /\ \E text \in JsonTexts \cup {"notjson"}, d \in Durations, t2 \in Later :
         LET atts == Append(attempts, [trust_env |-> trust_env, status_code |-> 200,
                                       duration_ms |-> d])
             parsed == ParseBody(text)
         IN  /\ sent' = Append(sent, WireRequest(call, loc, trust_env))
             /\ attempts' = atts
             /\ result' = Returned(parsed, DispatchMetadata(call, loc, d, text, atts, trust_env))
             /\ pc' = "done"
             /\ IF call.method = "GET"
                THEN /\ store' = CacheSet(store, loc.cache_key, parsed, now, t2)
                     /\ now' = t2
                     /\ cacheOps' = Append(cacheOps, "set")
                     /\ origin' = DictSet(origin, loc.cache_key,
                                          [url |-> loc.url, query |-> loc.query, body |-> loc.body,
                                           parsed |-> parsed, at |-> now])
                ELSE /\ t2 = now
                     /\ UNCHANGED <<store, now, cacheOps, origin>>
    /\ UNCHANGED <<unitVars, pureVars, trust_env, req, call, loc, store0, calls>>

\* An exception that is not an HTTPException leaves execute_api_call as it is
Uncaught(name) ==
    [raised |-> TRUE, status |-> 0, detail |-> Detail(name, <<>>), parsed |-> PyNone,
     metadata |-> <<>>]

\* Lines 263-289 and 335-337: the request succeeds with a 2xx answer whose body
\* is not text in UTF-8 (an image, say). response.json() hands the bytes to
\* json.loads, which raises UnicodeDecodeError when it decodes them: a
\* ValueError that is no JSONDecodeError, so the except clause of line 337 lets
\* it through and the call raises it; lines 338-361 are not reached.
AttemptUndecodable ==
    /\ pc = "attempt"
    /\ \E d \in Durations :
         attempts' = Append(attempts, [trust_env |-> trust_env, status_code |-> 200,
                                       duration_ms |-> d])
    /\ sent' = Append(sent, WireRequest(call, loc, trust_env))
    /\ result' = Uncaught("UnicodeDecodeError")
    /\ pc' = "done"
    /\ UNCHANGED <<cacheVars, unitVars, pureVars, trust_env, req, call, loc, cacheOps, store0,
                   origin, calls>>

\* Lines 290-295: httpx.ProxyError
AttemptProxyError ==
    /\ pc = "attempt"
    /\ sent' = Append(sent, WireRequest(call, loc, trust_env))
    /\ attempts' = Append(attempts, [trust_env |-> trust_env, error |-> "ProxyError"])
    /\ IF trust_env
       THEN /\ trust_env' = FALSE
            /\ UNCHANGED <<pc, result>>
       ELSE /\ pc' = "done"
            /\ result' = Raised(502, Detail("API request failed", <<"ProxyError">>))
            /\ UNCHANGED trust_env
    /\ UNCHANGED <<cacheVars, unitVars, pureVars, req, call, loc, cacheOps, store0, origin, calls>>

\* (what the loop must not do: any transport error of the first attempt is retried)
AttemptTransportErrorRetryAll ==
    /\ pc = "attempt"
    /\ \E kind \in {"ConnectError", "ReadTimeout"} :
         /\ sent' = Append(sent, WireRequest(call, loc, trust_env))
         /\ attempts' = Append(attempts, [trust_env |-> trust_env, error |-> kind])
         /\ IF trust_env
            THEN /\ trust_env' = FALSE
                 /\ UNCHANGED <<pc, result>>
            ELSE /\ pc' = "done"
                 /\ result' = Raised(502, Detail("API request failed", <<kind>>))
                 /\ UNCHANGED trust_env
    /\ UNCHANGED <<cacheVars, unitVars, pureVars, req, call, loc, cacheOps, store0, origin, calls>>

\* Lines 316-321: any other httpx.HTTPError
TransportErrors == {"ConnectError", "ReadTimeout"}

AttemptTransportError ==
    /\ pc = "attempt"
    /\ \E kind \in TransportErrors :
         /\ sent' = Append(sent, WireRequest(call, loc, trust_env))
         /\ attempts' = Append(attempts, [trust_env |-> trust_env, error |-> kind])
         /\ IF trust_env /\ kind = "ConnectError"
            THEN /\ trust_env' = FALSE
                 /\ UNCHANGED <<pc, result>>
            ELSE /\ pc' = "done"
                 /\ result' = Raised(502, Detail("API request failed", <<kind>>))
                 /\ UNCHANGED trust_env
    /\ UNCHANGED <<cacheVars, unitVars, pureVars, req, call, loc, cacheOps, store0, origin, calls>>

\* Lines 296-315: raise_for_status() raises httpx.HTTPStatusError
ErrorStatuses == {404, 500}

ErrorTexts == {"err", "LONG"}

\* (what the loop must not do: an error status of the trusting attempt is retried)
AttemptStatusErrorRetried ==
    /\ pc = "attempt"
    /\ \E st \in {404, 500}, content \in {"err", "LONG"} :
         /\ sent' = Append(sent, WireRequest(call, loc, trust_env))
         /\ attempts' = Append(attempts, [trust_env |-> trust_env, status_code |-> st,
                                          error |-> _truncate(content)])
         /\ IF trust_env
            THEN /\ trust_env' = FALSE
                 /\ UNCHANGED <<pc, result>>
            ELSE /\ pc' = "done"
                 /\ result' = Raised(st, Detail("API returned an error",
                                                <<ToString(st), _truncate(content)>>))
                 /\ UNCHANGED trust_env
    /\ UNCHANGED <<cacheVars, unitVars, pureVars, req, call, loc, cacheOps, store0, origin, calls>>

\* (what the call must not do: the error body of a failed GET is cached)
AttemptStatusErrorCached ==
    /\ pc = "attempt"
    /\ \E st \in ErrorStatuses, content \in ErrorTexts :
         /\ sent' = Append(sent, WireRequest(call, loc, trust_env))
         /\ attempts' = Append(attempts, [trust_env |-> trust_env, status_code |-> st,
                                          error |-> _truncate(content)])
         /\ pc' = "done"
         /\ result' = Raised(st, Detail("API returned an error", <<ToString(st), _truncate(content)>>))
         /\ store' = IF call.method = "GET"
                     THEN CacheSet(store, loc.cache_key, [kind |-> "text", v |-> content], now, now)
                     ELSE store
    /\ UNCHANGED <<now, unitVars, pureVars, trust_env, req, call, loc, cacheOps, store0, origin, calls>>

AttemptStatusError ==
    /\ pc = "attempt"
    /\ \E st \in ErrorStatuses, content \in ErrorTexts :
         /\ sent' = Append(sent, WireRequest(call, loc, trust_env))
         /\ attempts' = Append(attempts, [trust_env |-> trust_env, status_code |-> st,
                                          error |-> _truncate(content)])
         /\ pc' = "done"
         /\ result' = Raised(st, Detail("API returned an error", <<ToString(st), _truncate(content)>>))
    /\ UNCHANGED <<cacheVars, unitVars, pureVars, trust_env, req, call, loc, cacheOps, store0, origin, calls>>

\* The handler has answered; the next request can be taken.
Return ==
    /\ pc = "done"
    /\ pc' = "idle"
    /\ req' = NoReq
    /\ call' = NoCall
    /\ loc' = NoLoc
    /\ attempts' = <<>>
    /\ result' = NoResult
    /\ sent' = <<>>
    /\ cacheOps' = <<>>
    /\ store0' = <<>>
    /\ trust_env' = TRUE
    /\ UNCHANGED <<cacheVars, unitVars, pureVars, origin, calls>>

\* Time passes.
Tick ==
    /\ now < MaxTime
    /\ now' = now + 1
    /\ UNCHANGED <<store, unitVars, pureVars, callVars, origin, calls>>

NoOp == [op |-> "none", key |-> 0, t |-> 0, ret |-> PyNone, had |-> FALSE]

\* The worker threads of the server's thread pool the synchronous handlers
\* chat and run_api run on
Threads == {1, 2}

IdleThread ==
    [pc |-> "idle", op |-> "", key |-> 0, tnow |-> 0, n |-> 0, it |-> 0, expired |-> <<>>,
     oldest |-> 0, ts |-> 0, ret |-> PyNone, size |-> 0, ops |-> 0]

\* Before generate_api_call or extract_relevant_items has run
NotAsked == [kind |-> "none"]

Init ==
    /\ store = <<>>
    /\ now = 0
    /\ lastOp = NoOp
    /\ setAt = <<>>
    /\ insLog = <<>>
    /\ insOk = TRUE
    /\ threads = [t \in Threads |-> IdleThread]
    /\ pc = "idle"
    /\ trust_env = TRUE
    /\ req = NoReq
    /\ call = NoCall
    /\ loc = NoLoc
    /\ attempts = <<>>
    /\ result = NoResult
    /\ sent = <<>>
    /\ cacheOps = <<>>
    /\ store0 = <<>>
    /\ origin = <<>>
    /\ calls = 0
    /\ llm = NotAsked
    /\ norm = NotAsked
    /\ gen = NotAsked
    /\ response_json = NotAsked
    /\ context = NotAsked
    /\ insights = NotAsked
    /\ raw_path = NotAsked
    /\ normal = NotAsked

\* ------------------------------------------- SimpleCache called directly
\* The keys and the value of the direct calls
CacheKeys == 1..(MaxSize + 1)

CacheValue == [kind |-> "json", v |-> "{A}"]

InsertedKeys == {insLog[i] : i \in 1..Len(insLog)}

NoneExpired(s, t) == \A i \in 1..Len(s) : ~Expired(s[i], t, Ttl)

\* response_cache.get(key)
CacheGetOp ==
    \E key \in CacheKeys, t2 \in Later :
        /\ store' = CacheGet(store, key, now, t2).store
        /\ now' = t2
        /\ lastOp' = [op |-> "get", key |-> key, t |-> now,
                      ret |-> CacheGet(store, key, now, t2).ret,
                      had |-> key \in StoreKeys(store)]
        /\ insOk' = (insOk /\ NoneExpired(store, t2))
        /\ insLog' = IF insOk /\ NoneExpired(store, t2) THEN insLog ELSE <<>>
        /\ UNCHANGED <<setAt, threads, callVars, origin, calls, pureVars>>

\* response_cache.set(key, value)
CacheSetOp ==
    \E key \in CacheKeys, t2 \in Later :
        /\ store' = CacheSet(store, key, CacheValue, now, t2)
        /\ now' = t2
        /\ setAt' = DictSet(setAt, key, now)
        /\ lastOp' = [op |-> "set", key |-> key, t |-> now, ret |-> PyNone,
                      had |-> key \in StoreKeys(store)]
        /\ insOk' = (insOk /\ key \notin InsertedKeys /\ NoneExpired(store, t2))
        /\ insLog' = IF insOk /\ key \notin InsertedKeys /\ NoneExpired(store, t2)
                     THEN Append(insLog, key) ELSE <<>>
        /\ UNCHANGED <<threads, callVars, origin, calls, pureVars>>

\* ------------------------------------- SimpleCache called by several threads
\* The interpreter switches threads between bytecodes: a dict operation is one
\* step, the iteration of the comprehension of _prune one step per item. The
\* dict iterator remembers the size of the dict when it was made and raises
\* RuntimeError when it finds another size; it walks the entries by position.
\* A local that is dead is reset to its initial value.
MaxThreadOps == 3

ThreadKeys == 1..(MaxSize + 1)

Frame(t) == threads[t]

RECURSIVE OpsOf(_)
\* The get and set calls the threads of T have made
OpsOf(T) ==
    IF T = {} THEN 0
    ELSE LET t == CHOOSE x \in T : TRUE
         IN  threads[t].ops + OpsOf(T \ {t})

\* set, line 48: self._store[key] = (time.time(), value)
ThreadSet(t) ==
    /\ Frame(t).pc = "idle"
    /\ OpsOf(Threads) < MaxThreadOps
    /\ \E key \in ThreadKeys :
         /\ store' = StorePut(store, key, now, CacheValue)
         /\ threads' = [threads EXCEPT ![t] =
                           [IdleThread EXCEPT !.pc = "prune", !.op = "set", !.key = key,
                                              !.ops = Frame(t).ops + 1]]
    /\ UNCHANGED <<now, lastOp, setAt, insLog, insOk, callVars, origin, calls, pureVars>>

\* get, line 37: the call enters _prune
ThreadGet(t) ==
    /\ Frame(t).pc = "idle"
    /\ OpsOf(Threads) < MaxThreadOps
    /\ \E key \in ThreadKeys :
         threads' = [threads EXCEPT ![t] =
                        [IdleThread EXCEPT !.pc = "prune", !.op = "get", !.key = key,
                                           !.ops = Frame(t).ops + 1]]
    /\ UNCHANGED <<store, now, lastOp, setAt, insLog, insOk, callVars, origin, calls, pureVars>>

\* _prune, lines 28-29: the clock is read, the iterator over the items is made
ThreadPruneStart(t) ==
    /\ Frame(t).pc = "prune"
    /\ threads' = [threads EXCEPT ![t].pc = "scan", ![t].tnow = now, ![t].n = Len(store),
                                  ![t].it = 0, ![t].expired = <<>>]
    /\ UNCHANGED <<store, now, lastOp, setAt, insLog, insOk, callVars, origin, calls, pureVars>>

\* _prune, line 29: one step of the iterator
ThreadScan(t) ==
    /\ Frame(t).pc = "scan"
    /\ threads' =
         IF Len(store) # Frame(t).n
         THEN [threads EXCEPT ![t] = [IdleThread EXCEPT !.pc = "RuntimeError",
                                                       !.op = Frame(t).op,
                                                       !.ops = Frame(t).ops]]
         ELSE IF Frame(t).it < Len(store)
         THEN [threads EXCEPT ![t].it = @ + 1,
                              ![t].expired =
                                  IF Expired(store[Frame(t).it + 1], Frame(t).tnow, Ttl)
                                  THEN Append(@, store[Frame(t).it + 1].key) ELSE @]
         ELSE [threads EXCEPT ![t].pc = "pop", ![t].tnow = 0, ![t].n = 0, ![t].it = 0]
    /\ UNCHANGED <<store, now, lastOp, setAt, insLog, insOk, callVars, origin, calls, pureVars>>

\* _prune, lines 30-31: one pop of an expired key, or the end of the loop
ThreadPopExpired(t) ==
    /\ Frame(t).pc = "pop"
    /\ IF Frame(t).expired # <<>>
       THEN /\ store' = StorePop(store, Head(Frame(t).expired))
            /\ threads' = [threads EXCEPT ![t].expired = Tail(@)]
       ELSE /\ threads' = [threads EXCEPT ![t].pc = "evict"]
            /\ UNCHANGED store
    /\ UNCHANGED <<now, lastOp, setAt, insLog, insOk, callVars, origin, calls, pureVars>>

\* _prune, line 32: the loop test; when it fails _prune returns, and set with it
ThreadEvictCheck(t) ==
    /\ Frame(t).pc = "evict"
    /\ threads' =
         IF Len(store) > MaxSize
         THEN [threads EXCEPT ![t].pc = "min"]
         ELSE IF Frame(t).op = "set"
         THEN [threads EXCEPT ![t].pc = "done", ![t].key = 0, ![t].size = Len(store)]
         ELSE [threads EXCEPT ![t].pc = "lookup"]
    /\ UNCHANGED <<store, now, lastOp, setAt, insLog, insOk, callVars, origin, calls, pureVars>>

\* _prune, line 33: min() over the items
ThreadMin(t) ==
    /\ Frame(t).pc = "min"
    /\ threads' =
         IF store = <<>>
         THEN [threads EXCEPT ![t] = [IdleThread EXCEPT !.pc = "ValueError",
                                                       !.op = Frame(t).op,
                                                       !.ops = Frame(t).ops]]
         ELSE [threads EXCEPT ![t].pc = "evictpop", ![t].oldest = store[OldestIndex(store)].key]
    /\ UNCHANGED <<store, now, lastOp, setAt, insLog, insOk, callVars, origin, calls, pureVars>>

\* _prune, line 34
ThreadEvictPop(t) ==
    /\ Frame(t).pc = "evictpop"
    /\ store' = StorePop(store, Frame(t).oldest)
    /\ threads' = [threads EXCEPT ![t].pc = "evict", ![t].oldest = 0]
    /\ UNCHANGED <<now, lastOp, setAt, insLog, insOk, callVars, origin, calls, pureVars>>

\* get, lines 38-41
ThreadLookup(t) ==
    /\ Frame(t).pc = "lookup"
    /\ threads' =
         IF Frame(t).key \in StoreKeys(store)
         THEN [threads EXCEPT ![t].pc = "check",
                              ![t].ts = store[StoreIndex(store, Frame(t).key)].ts,
                              ![t].ret = store[StoreIndex(store, Frame(t).key)].value]
         ELSE [threads EXCEPT ![t].pc = "done", ![t].key = 0, ![t].ret = PyNone,
                              ![t].size = Len(store)]
    /\ UNCHANGED <<store, now, lastOp, setAt, insLog, insOk, callVars, origin, calls, pureVars>>

\* get, lines 42-45
ThreadExpiryCheck(t) ==
    /\ Frame(t).pc = "check"
    /\ IF now - Frame(t).ts > Ttl
       THEN /\ store' = StorePop(store, Frame(t).key)
            /\ threads' = [threads EXCEPT ![t].pc = "done", ![t].key = 0, ![t].ts = 0,
                                          ![t].ret = PyNone,
                                          ![t].size = Len(StorePop(store, Frame(t).key))]
       ELSE /\ threads' = [threads EXCEPT ![t].pc = "done", ![t].key = 0, ![t].ts = 0,
                                          ![t].size = Len(store)]
            /\ UNCHANGED store
    /\ UNCHANGED <<now, lastOp, setAt, insLog, insOk, callVars, origin, calls, pureVars>>

\* The operation has returned or raised; the thread goes on
ThreadReturn(t) ==
    /\ Frame(t).pc \in {"done", "RuntimeError", "ValueError"}
    /\ threads' = [threads EXCEPT ![t] = [IdleThread EXCEPT !.ops = Frame(t).ops]]
    /\ UNCHANGED <<store, now, lastOp, setAt, insLog, insOk, callVars, origin, calls, pureVars>>

\* ------------------------------------------------------------ the requests
\* API definitions as the loader supplies them (APIDefinition, ExampleEndpoint)
Endpoint(name, path, method, aq, ab) ==
    [name |-> name, path |-> path, method |-> method,
     allowed_query_params |-> aq, allowed_body_params |-> ab]

Api(name, base_url, auth_type, auth_key_name, eps) ==
    [name |-> name, base_url |-> base_url, auth_type |-> auth_type,
     auth_key_name |-> auth_key_name, example_endpoints |-> eps]

BaseUrl == <<"https:", "/", "/", "h1", "/">>

OpenApi ==
    Api("open", BaseUrl, "none", "api_key",
        << Endpoint("list", <<"/", "a">>, "GET", <<>>, <<>>),
           Endpoint("create", <<"/", "a">>, "POST", <<>>, <<{"q"}>>),
           Endpoint("item", <<"/", "a", "/", "{", "x", "}">>, "GET", <<{"q"}>>, <<>>),
           Endpoint("version", <<"/", "a", ".", "b">>, "GET", <<{}>>, <<>>) >>)

RestCountriesApi ==
    Api("RestCountries", BaseUrl, "none", "api_key",
        << Endpoint("all", <<"/", "b">>, "GET", <<{"fields", "q"}>>, <<>>) >>)

HeaderApi ==
    Api("hdr", BaseUrl, "header", "api_key",
        << Endpoint("list", <<"/", "a">>, "GET", <<>>, <<>>) >>)

QueryApi ==
    Api("qry", BaseUrl, "query", "appid",
        << Endpoint("list", <<"/", "a">>, "GET", <<{"q"}>>, <<>>),
           Endpoint("create", <<"/", "a">>, "POST", <<>>, <<{}>>) >>)

RapidApi ==
    Api("rapid", BaseUrl, "rapidapi", "api_key",
        << Endpoint("list", <<"/", "a">>, "GET", <<>>, <<>>) >>)

RapidNoHostApi ==
    Api("rapidnohost", <<"h1", "/">>, "rapidapi", "api_key",
        << Endpoint("list", <<"/", "a">>, "GET", <<>>, <<>>) >>)

OAuthApi ==
    Api("oauth", BaseUrl, "oauth2", "api_key",
        << Endpoint("list", <<"/", "a">>, "GET", <<>>, <<>>) >>)

\* An API whose one endpoint is templated
ItemApi ==
    Api("item", BaseUrl, "none", "api_key",
        << Endpoint("item", <<"/", "a", "/", "{", "x", "}">>, "GET", <<>>, <<>>) >>)

APIs ==
    {OpenApi, RestCountriesApi, HeaderApi, QueryApi, RapidApi, RapidNoHostApi, OAuthApi, ItemApi}

\* The secret key_storage.load_api_key returns: "" is None (no key stored)
Secrets == {"S1", "S2"}

ApiKeys == {""} \cup Secrets

APICall(endpoint, method, headers, path_params, query, body) ==
    [endpoint |-> endpoint, method |-> method, headers |-> headers,
     path_params |-> path_params, query |-> query, body |-> body]

\* Endpoint strings of the calls: every string of at most MaxPathLen characters
\* over PathChars that begins with a slash (APICall.endpoint_format)
MaxPathLen == 4

PathChars == {"/", "a", "b", ".", "?"}

AllPaths == {<<"/">> \o s : s \in UNION {[1..k -> PathChars] : k \in 0..(MaxPathLen - 1)}}

\* dicts with keys among names and values among values
Dicts(names, values) == UNION {[d -> values] : d \in SUBSET names}

PathCalls ==
    {APICall(e, m, <<>>, <<>>, <<>>, <<>>) : e \in AllPaths, m \in {"GET", "POST"}}

TemplatedPaths == {<<"/", "a">>, <<"/", "a", "/", "{", "x", "}">>, <<"/", "b">>}

PathParams == {<<>>, <<"x">> :> <<"b">>, <<"x">> :> <<"/">>, <<"x">> :> <<>>}

ParamCalls ==
    {APICall(e, m, <<>>, pp, q, b) :
        e \in TemplatedPaths, m \in {"GET", "POST"}, pp \in PathParams,
        q \in Dicts({"q", "z", "fields"}, {"1"}), b \in Dicts({"q", "z"}, {"1"})}

AuthCalls ==
    {APICall(<<"/", "a">>, m, h, <<>>, q, <<>>) :
        m \in {"GET", "POST", "PUT"},
        h \in Dicts({"Authorization", "X-RapidAPI-Key", "X-RapidAPI-Host"}, {"U"}),
        q \in Dicts({"appid", "api_key"}, {"U", "V"})}

BroadCalls == PathCalls \cup ParamCalls \cup AuthCalls

\* ---------------------------------------------------------- specifications
\* One process, one request: every API definition, call and secret.
ExecuteOne ==
    /\ calls = 0
    /\ \E api_def \in APIs, c \in BroadCalls, api_key \in ApiKeys : Execute(api_def, c, api_key)

NextOne ==
    \/ ExecuteOne
    \/ AttemptSucceeds
    \/ AttemptProxyError
    \/ AttemptTransportError
    \/ AttemptStatusError

SpecOne == Init /\ [][NextOne]_vars

\* The server: requests are handled one after the other, time passes.
MaxCalls == 2

NarrowPaths == {<<"/", "a">>, <<"/", "a", "?", "a">>, <<"/", "a", "?", "b">>, <<"/", "b">>}

NarrowCalls ==
    {APICall(e, "GET", <<>>, <<>>, <<>>, <<>>) : e \in NarrowPaths}
        \cup {APICall(<<"/", "a">>, "POST", <<>>, <<>>, <<>>, <<>>)}

\* An API without auth, and one with a query credential, stored or missing
NarrowRequests == {<<OpenApi, "">>, <<QueryApi, "">>, <<QueryApi, "S1">>}

ExecuteCall ==
    /\ calls < MaxCalls
    /\ \E r \in NarrowRequests, c \in NarrowCalls : Execute(r[1], c, r[2])

Next ==
    \/ ExecuteCall
    \/ AttemptSucceeds
    \/ AttemptProxyError
    \/ AttemptTransportError
    \/ AttemptStatusError
    \/ Return
    \/ Tick

Spec == Init /\ [][Next]_vars

\* SimpleCache alone, called by one thread.
NextCache ==
    \/ CacheGetOp
    \/ CacheSetOp
    \/ Tick

SpecCache == Init /\ [][NextCache]_vars

\* SimpleCache alone, called by the threads of the pool.
NextConc ==
    \/ \E t \in Threads : ThreadSet(t)
    \/ \E t \in Threads : ThreadGet(t)
    \/ \E t \in Threads : ThreadPruneStart(t)
    \/ \E t \in Threads : ThreadScan(t)
    \/ \E t \in Threads : ThreadPopExpired(t)
    \/ \E t \in Threads : ThreadEvictCheck(t)
    \/ \E t \in Threads : ThreadMin(t)
    \/ \E t \in Threads : ThreadEvictPop(t)
    \/ \E t \in Threads : ThreadLookup(t)
    \/ \E t \in Threads : ThreadExpiryCheck(t)
    \/ \E t \in Threads : ThreadReturn(t)
    \/ Tick

SpecConc == Init /\ [][NextConc]_vars

\* ------------------------------------------------------------------ claims
\* What a call was matched against, and what it asked for
MatchedEndpoint == req.api.example_endpoints[loc.matched]

Prepared == pc # "idle" /\ loc.matched # 0

RECURSIVE LiteralMatch(_, _)
\* The template read as the contract reads it: a placeholder stands for one
\* non-empty run of characters without a slash, every other character for itself
LiteralMatch(p, s) ==
    IF p = <<>> THEN s = <<>>
    ELSE IF Head(p) = "SEG"
         THEN \E k \in 1..Len(s) :
                  /\ \A i \in 1..k : s[i] # "/"
                  /\ LiteralMatch(Tail(p), SubSeq(s, k + 1, Len(s)))
         ELSE s # <<>> /\ Head(p) = Head(s) /\ LiteralMatch(Tail(p), Tail(s))

Declares(ep, endpoint, method) ==
    /\ ep.method = method
    /\ LiteralMatch(TemplatePattern(_normalize_path(ep.path)), _normalize_path(endpoint))

Declared ==
    \E i \in 1..Len(req.api.example_endpoints) :
        Declares(req.api.example_endpoints[i], call.endpoint, call.method)

\* C1: a request goes out only if the call's normalized path fully matches the
\* normalized template of a declared endpoint with the call's method; any other
\* call fails with status 400 without a dispatch attempt or a cache access.
C1_OnlyDeclaredEndpoints ==
    pc # "idle" =>
        /\ sent # <<>> => Declared
        /\ ~Declared =>
              /\ pc = "done" /\ result.raised /\ result.status = 400
              /\ sent = <<>> /\ cacheOps = <<>> /\ store = store0

\* C2: with an allow-list declared for the matched endpoint, no query (body)
\* parameter outside it is sent upstream (the credential the auth injector adds
\* to the query is not counted); with none declared, every supplied parameter
\* is passed through.
InjectedQueryNames ==
    IF req.api.auth_type = "query" THEN {req.api.auth_key_name} ELSE {}

C2_AllowListFiltering ==
    \A i \in 1..Len(sent) :
        /\ MatchedEndpoint.allowed_query_params # <<>> =>
              DOMAIN sent[i].params \subseteq
                  MatchedEndpoint.allowed_query_params[1] \cup InjectedQueryNames
        /\ MatchedEndpoint.allowed_body_params # <<>> =>
              DOMAIN sent[i].json \subseteq MatchedEndpoint.allowed_body_params[1]
        /\ MatchedEndpoint.allowed_query_params = <<>> =>
              \A k \in DOMAIN req.call.query :
                  k \in DOMAIN sent[i].params /\ sent[i].params[k] = req.call.query[k]
        /\ MatchedEndpoint.allowed_body_params = <<>> =>
              \A k \in DOMAIN req.call.body :
                  k \in DOMAIN sent[i].json /\ sent[i].json[k] = req.call.body[k]

\* C3: neither the secret, nor an Authorization header value, nor the value of
\* the configured auth query parameter shows unmasked in the request
\* headers/query/body of the returned metadata or in an error detail.
SecretForms == IF req.api_key = "" THEN {} ELSE {req.api_key, Bearer(req.api_key)}

NoSecretIn(d) == \A k \in DOMAIN d : d[k] \notin SecretForms

C3_SecretsMasked ==
    pc = "done" =>
        IF result.raised
        THEN \A i \in 1..Len(result.detail.args) : result.detail.args[i] \notin SecretForms
        ELSE LET r == result.metadata.request
             IN  /\ NoSecretIn(r.headers) /\ NoSecretIn(r.query) /\ NoSecretIn(r.body)
                 /\ "Authorization" \in DOMAIN r.headers => r.headers["Authorization"] = Mask
                 /\ req.api.auth_key_name \in DOMAIN r.query =>
                        r.query[req.api.auth_key_name] = Mask

\* C8: the cache key of a GET call is the same whatever secret is supplied and
\* whatever value the call gives the configured auth query parameter, or none;
\* so the key looked up does not depend on the credential.
CredentialVariants(c, name) ==
    {[c EXCEPT !.query = DictRestrict(c.query, DOMAIN c.query \ {name})]}
        \cup {[c EXCEPT !.query = DictSet(c.query, name, v)] : v \in {"U", "V"} \cup Secrets}

C8_CacheKeyIgnoresCredential ==
    (Prepared /\ call.method = "GET" /\ sent = <<>>) =>
        \A c2 \in CredentialVariants(req.call, req.api.auth_key_name), k2 \in ApiKeys :
            LET p2 == Prepare(req.api, c2, k2)
            IN  p2.status = 0 => p2.loc.cache_key = loc.cache_key

C8_Witness ==
    /\ Prepared /\ call.method = "GET" /\ cacheOps = <<"get">>
    /\ req.api.auth_type = "query" /\ req.api_key = "S1"
    /\ req.api.auth_key_name \in DOMAIN loc.query
    /\ loc.query[req.api.auth_key_name] = "S1"
    /\ req.api.auth_key_name \notin DOMAIN loc.cache_key.query

\* The request the running call would put on the wire
SameRequestAs(o) == o.url = loc.url /\ o.query = loc.query /\ o.body = loc.body

LookedUp == Prepared /\ call.method = "GET" /\ sent = <<>> /\ attempts = <<>>

\* C6: a GET call identical to an earlier one whose dispatch succeeded, made
\* within the TTL and with no eviction in between, returns the body parsed
\* then, with from_cache true and duration 0, and makes no dispatch attempt.
C6_SecondCallServedFromCache ==
    (/\ LookedUp
     /\ loc.cache_key \in DOMAIN origin
     /\ SameRequestAs(origin[loc.cache_key])
     /\ now - origin[loc.cache_key].at <= Ttl
     /\ Cardinality(DOMAIN origin) <= MaxSize)
    => /\ pc = "done"
       /\ ~result.raised
       /\ result.parsed = origin[loc.cache_key].parsed
       /\ result.metadata.from_cache
       /\ result.metadata.duration_ms = 0

\* C7 as stated: a call that is not a GET, and a call that ends in a failure,
\* leaves the cache contents unchanged; only GET calls use the cache, and only
\* a successful dispatch writes it.
C7_FailuresLeaveCacheUnchanged ==
    pc = "done" =>
        /\ (call.method # "GET" \/ result.raised) => store = store0
        /\ call.method # "GET" => cacheOps = <<>>
        /\ "set" \in {cacheOps[i] : i \in 1..Len(cacheOps)} => ~result.raised

\* s is s0 without some entries, each of them expired at time t
PrunedOf(s, s0, t) ==
    /\ s = SelectSeq(s0, LAMBDA e : \E i \in 1..Len(s) : s[i] = e)
    /\ \A i \in 1..Len(s0) :
          (\A j \in 1..Len(s) : s[j] # s0[i]) => Expired(s0[i], t, Ttl)

\* C7, amended: such a call adds no entry and changes none; a call that is not
\* a GET or fails before the lookup (400, 401) leaves the store as it was, and a
\* GET call whose dispatch fails has at most dropped expired entries.
C7_FailuresAddNothing ==
    pc = "done" =>
        /\ (call.method # "GET" \/ (result.raised /\ cacheOps = <<>>)) => store = store0
        /\ (call.method = "GET" /\ result.raised) => PrunedOf(store, store0, now)
        /\ call.method # "GET" => cacheOps = <<>>
        /\ "set" \in {cacheOps[i] : i \in 1..Len(cacheOps)} => ~result.raised

C7_Witness ==
    /\ pc = "done" /\ call.method = "GET" /\ result.raised /\ result.status = 502
    /\ store0 # <<>> /\ store = <<>>

\* C9: a cache hit returns a body that was fetched for the same request: the
\* same URL (query string included), the same query parameters other than the
\* auth key, the same body.
C9_HitIsForSameRequest ==
    (pc = "done" /\ ~result.raised /\ result.metadata.from_cache) =>
        LET o == origin[loc.cache_key]
            noAuth(q) == DictRestrict(q, DOMAIN q \ {req.api.auth_key_name})
        IN  /\ o.url = loc.url
            /\ noAuth(o.query) = noAuth(loc.query)
            /\ o.body = loc.body

\* C4: the store never holds more than maxsize entries; and after more than
\* maxsize inserts of distinct keys, none expiring in between, it holds exactly
\* maxsize entries, those of the keys inserted last.
LastInserted == {insLog[i] : i \in (Len(insLog) - MaxSize + 1)..Len(insLog)}

C4_CapacityKeepsNewest ==
    /\ Len(store) <= MaxSize
    /\ (insOk /\ Len(insLog) > MaxSize) =>
          /\ Len(store) = MaxSize
          /\ StoreKeys(store) = LastInserted

C4_Witness ==
    /\ insOk /\ Len(insLog) = MaxSize + 1 /\ lastOp.op = "set"
    /\ insLog[1] \notin StoreKeys(store)

\* C5: a get made more than ttl after the last set of its key returns None and
\* leaves the key out of the store; as the clock does not go back this is so
\* for every later get too, until the key is set again.
C5_ExpiredEntryAbsent ==
    (/\ lastOp.op = "get"
     /\ lastOp.key \in DOMAIN setAt
     /\ lastOp.t - setAt[lastOp.key] > Ttl)
    => /\ lastOp.ret = PyNone
       /\ lastOp.key \notin StoreKeys(store)

C5_Witness ==
    /\ lastOp.op = "get" /\ lastOp.had
    /\ lastOp.key \in DOMAIN setAt
    /\ lastOp.t - setAt[lastOp.key] > Ttl
    /\ lastOp.ret = PyNone

\* C10: whatever the interleaving of the threads, no get or set fails because
\* the store changed while _prune went over it, and the store holds at most
\* maxsize entries when a get or set returns.
C10_ConcurrentUseIsSafe ==
    \A t \in Threads :
        /\ Frame(t).pc \notin {"RuntimeError", "ValueError"}
        /\ Frame(t).pc = "done" => Frame(t).size <= MaxSize

\* The attempts log read as the dispatcher's history
Failed(a) == "error" \in DOMAIN a

StatusFailure(a) == Failed(a) /\ "status_code" \in DOMAIN a

TransportFailure(a) == Failed(a) /\ "status_code" \notin DOMAIN a

Retryable(a) == TransportFailure(a) /\ a.error \in {"ProxyError", "ConnectError"}

\* What C11 to C14 have in common: at most two attempts, the first trusting the
\* environment and the second not, the second only after a proxy or connection
\* error of the first, one request on the wire per attempt.
TwoAttemptLoop ==
    /\ Len(attempts) <= 2
    /\ Len(sent) = Len(attempts)
    /\ \A i \in 1..Len(attempts) :
          /\ attempts[i].trust_env = (i = 1)
          /\ sent[i].trust_env = (i = 1)
    /\ Len(attempts) = 2 => Retryable(attempts[1])
    /\ (pc = "attempt" /\ attempts # <<>>) => (Len(attempts) = 1 /\ Retryable(attempts[1]))
    /\ pc = "done" => (result.raised <=> ~(result.metadata # <<>>))

\* C11 as stated: the loop above, and any transport error of the first attempt
\* other than a proxy or connection error, and any failure of the second
\* attempt, ends the call with status 502.
C11_AnyFailureEndsIn502 ==
    /\ TwoAttemptLoop
    /\ \A i \in 1..Len(attempts) :
          (\/ i = 1 /\ TransportFailure(attempts[i]) /\ ~Retryable(attempts[i])
           \/ i = 2 /\ Failed(attempts[i]))
          => (pc = "done" /\ result.raised /\ result.status = 502)

\* C11, amended: a transport failure that is not retried ends the call with
\* status 502, a non-2xx answer ends it with the status the upstream gave, on
\* the second attempt as on the first.
C11_FailureEndsTheCall ==
    /\ TwoAttemptLoop
    /\ \A i \in 1..Len(attempts) :
          /\ (TransportFailure(attempts[i]) /\ (i = 2 \/ ~Retryable(attempts[i]))) =>
                 (pc = "done" /\ result.raised /\ result.status = 502)
          /\ StatusFailure(attempts[i]) =>
                 (pc = "done" /\ result.raised /\ result.status = attempts[i].status_code)

C11_Witness ==
    /\ Len(attempts) = 2
    /\ attempts[1].error = "ConnectError"
    /\ StatusFailure(attempts[2])
    /\ pc = "done" /\ result.raised /\ result.status = 404

\* C12: when the trusting attempt failed with a proxy error and the second
\* attempt succeeded, the call returns a result whose attempts log is the failed
\* trust_env = True attempt followed by the successful trust_env = False
\* attempt, and whose trust_env_used is False.
ProxyErrorThenSuccess ==
    /\ Len(attempts) = 2
    /\ TransportFailure(attempts[1]) /\ attempts[1].error = "ProxyError"
    /\ ~Failed(attempts[2])

C13_ErrorStatusEndsTheCall ==
    \A i \in 1..Len(attempts) :
        StatusFailure(attempts[i]) =>
            /\ i = Len(attempts) /\ Len(sent) = i
            /\ pc = "done" /\ result.raised
            /\ result.status = attempts[i].status_code
            /\ result.detail.msg = "API returned an error"
            /\ result.detail.args = <<ToString(attempts[i].status_code), attempts[i].error>>
            /\ attempts[i].error \in {_truncate(content) : content \in ErrorTexts}
            /\ attempts[i].trust_env => Len(attempts) = 1

C13_Witness ==
    /\ Len(attempts) = 1 /\ StatusFailure(attempts[1]) /\ attempts[1].trust_env
    /\ attempts[1].error = _truncate("LONG")
    /\ pc = "done" /\ result.raised /\ result.status = 500

\* C14: every attempt made is in the attempts log with its trust setting, its
\* outcome and its duration, and the caller receives that log with the result
\* of the call, returned or raised.
C14_AttemptsLogReachesCaller ==
    /\ Len(attempts) = Len(sent)
    /\ \A i \in 1..Len(attempts) :
          /\ attempts[i].trust_env = sent[i].trust_env
          /\ {"status_code", "error"} \cap DOMAIN attempts[i] # {}
          /\ "duration_ms" \in DOMAIN attempts[i]
    /\ (pc = "done" /\ attempts # <<>>) =>
          /\ "attempts" \in DOMAIN result.metadata
          /\ result.metadata.attempts = attempts

\* C15: a call whose endpoint is the templated path of a declared endpoint and
\* whose path_params give every placeholder a value passes the matcher when its
\* method is the endpoint's, and fails it (400, not recognized) when its method
\* is another one that no declared endpoint has for the substituted path.
HasPlaceholder(path) == \E i \in 1..Len(path) : path[i] = "{"

MatcherFailed ==
    /\ pc = "done" /\ result.raised /\ result.status = 400
    /\ result.detail.msg = "Endpoint or method not recognized for this API"

AllPlaceholdersGiven ==
    ~(pc = "done" /\ result.raised /\ result.detail.msg = "Missing path parameter")

C15_TemplateCallsPassMatcher ==
    (pc # "idle" /\ AllPlaceholdersGiven) =>
        \A i \in 1..Len(req.api.example_endpoints) :
            LET ep == req.api.example_endpoints[i]
            IN  (HasPlaceholder(ep.path) /\ req.call.endpoint = ep.path) =>
                    /\ req.call.method = ep.method => ~MatcherFailed
                    /\ (req.call.method # ep.method /\ ~Declared) => MatcherFailed

\* C16: every header the caller supplied, and every query entry there is when
\* _apply_auth is called (the caller's, filtered, with the API defaults), goes
\* out with the value it had, whatever the auth strategy: the credential is
\* added only under a name that is not there yet.
HeadersBeforeAuth == DictUpdate("Accept" :> "application/json", req.call.headers)

QueryBeforeAuth ==
    _apply_api_defaults(req.api, MatchedEndpoint,
                        _filter_params(req.call.query, MatchedEndpoint.allowed_query_params))

Keeps(d, before) == \A k \in DOMAIN before : k \in DOMAIN d /\ d[k] = before[k]

C16_AuthKeepsCallerValues ==
    \A i \in 1..Len(sent) :
        /\ Keeps(sent[i].headers, req.call.headers)
        /\ Keeps(sent[i].headers, HeadersBeforeAuth)
        /\ Keeps(sent[i].params, QueryBeforeAuth)

\* The caller gave its own value under the name of the credential
C16_Witness ==
    /\ sent # <<>> /\ req.api_key = "S1"
    /\ req.api.auth_type = "query"
    /\ req.api.auth_key_name \in DOMAIN req.call.query
    /\ sent[1].params[req.api.auth_key_name] = "U"

\* A call for an API that wants a credential, made with no secret stored
NoSecretCall == pc # "idle" /\ req.api.auth_type # "none" /\ req.api_key = ""

NothingDone == sent = <<>> /\ cacheOps = <<>> /\ store = store0 /\ attempts = <<>>

\* C17 as stated: such a call fails with status 401, with no cache lookup, no
\* dispatch attempt and no body returned.
C17_NoSecretFailsWith401 ==
    NoSecretCall =>
        /\ pc = "done" /\ result.raised /\ result.status = 401
        /\ NothingDone

\* The method, the path parameters and the endpoint of the call are accepted
AcceptedCall ==
    /\ req.call.method \in ALLOWED_METHODS
    /\ _resolve_endpoint(req.call.endpoint, req.call.path_params).ok
    /\ _validate_endpoint(req.api, call.endpoint, req.call.method) # 0

\* C17, amended: such a call fails with no cache lookup, no dispatch attempt and
\* no body returned: with status 401 when its method, path parameters and
\* endpoint are accepted, with the 400 of the step that rejects them otherwise.
C17_NoSecretFailsFast ==
    NoSecretCall =>
        /\ pc = "done" /\ result.raised /\ result.parsed = PyNone
        /\ NothingDone
        /\ AcceptedCall => result.status = 401
        /\ ~AcceptedCall => result.status = 400

\* ... while the cache holds a body under the key of the call
C17_Witness ==
    /\ NoSecretCall /\ result.status = 401
    /\ req.call.method = "GET"
    /\ \E i \in 1..Len(store) :
          store[i].key = _build_cache_key(req.api, call.endpoint, "GET", <<>>, <<>>)


\* ------------------------------------------------- ollama_client: JSON values
\* What json.loads gives: None, a str (its characters), an int, a dict, a list
JNull == [t |-> "null"]

JStr(s) == [t |-> "str", s |-> s]

JInt(n) == [t |-> "int", n |-> n]

JDict(d) == [t |-> "dict", d |-> d]

JList(l) == [t |-> "list", l |-> l]

\* bool(v) is False
Falsy(v) ==
    CASE v.t = "null" -> TRUE
      [] v.t = "str" -> v.s = <<>>
      [] v.t = "int" -> v.n = 0
      [] v.t = "dict" -> DOMAIN v.d = {}
      [] v.t = "list" -> v.l = <<>>

DecimalDigits == <<"0", "1", "2", "3", "4", "5", "6", "7", "8", "9">>

RECURSIVE Decimal(_)
Decimal(n) ==
    IF n < 10 THEN <<DecimalDigits[n + 1]>> ELSE Decimal(n \div 10) \o <<DecimalDigits[(n % 10) + 1]>>

\* str(v), of None, a str and a natural number
PyStr(v) ==
    CASE v.t = "null" -> <<"N", "o", "n", "e">>
      [] v.t = "str" -> v.s
      [] v.t = "int" -> Decimal(v.n)

LowerCase ==
    <<"a", "b", "c", "d", "e", "f", "g", "h", "i", "j", "k", "l", "m",
      "n", "o", "p", "q", "r", "s", "t", "u", "v", "w", "x", "y", "z">>

UpperCase ==
    <<"A", "B", "C", "D", "E", "F", "G", "H", "I", "J", "K", "L", "M",
      "N", "O", "P", "Q", "R", "S", "T", "U", "V", "W", "X", "Y", "Z">>

UpperChar(c) ==
    IF \E i \in 1..26 : LowerCase[i] = c
    THEN UpperCase[CHOOSE i \in 1..26 : LowerCase[i] = c]
    ELSE c

\* str.upper()
Upper(s) == [i \in 1..Len(s) |-> UpperChar(s[i])]

Whitespace == {" ", "\t", "\n"}

RECURSIVE Strip(_)
\* str.strip()
Strip(s) ==
    IF s # <<>> /\ s[1] \in Whitespace THEN Strip(Tail(s))
    ELSE IF s # <<>> /\ s[Len(s)] \in Whitespace THEN Strip(SubSeq(s, 1, Len(s) - 1))
    ELSE s

\* ------------------------------------------- ollama_client: the normalizer
\* _apply_path_params: the same substitution as _resolve_endpoint, of str(value);
\* [ok, missing, path], where a key absent from path_params raises ValueError.
_apply_path_params(endpoint, path_params) ==
    ResolveFrom(endpoint, 1, [k \in DOMAIN path_params |-> PyStr(path_params[k])])

MappingKeys == {"headers", "query", "body", "path_params"}

\* Lines 81-88: normalized[key] after the loop over required_keys
Required(data, key) ==
    IF key \in DOMAIN data THEN data[key]
    ELSE IF key \in MappingKeys THEN JDict(<<>>) ELSE JNull

\* (what line 90 must not do: query_params wins over a query that is given)
NormalizedQueryAliasFirst(data) ==
    IF "query_params" \in DOMAIN data THEN data["query_params"] ELSE Required(data, "query")

\* Lines 90-91: the legacy alias
NormalizedQuery(data) ==
    IF "query_params" \in DOMAIN data /\ Falsy(DictGet(data, "query", JNull))
    THEN data["query_params"]
    ELSE Required(data, "query")

\* Lines 94-97: a value that is not a dict becomes {}
AsMapping(v) == IF v.t = "dict" THEN v.d ELSE <<>>

\* Lines 99-103
NormalizedNotes(v) ==
    IF v.t = "null" THEN <<>> ELSE IF v.t # "str" THEN PyStr(v) ELSE v.s

\* What _normalize_api_payload returns, or the ValueError it raises
NormOk(value) == [ok |-> TRUE, error |-> NoDetail, value |-> value]

NormError(d) == [ok |-> FALSE, error |-> d, value |-> <<>>]

\* Lines 115-122: _apply_path_params has run
NormalizeResolved(data, res) ==
    IF ~res.ok
    THEN NormError(Detail("Missing path parameter", res.missing))
    ELSE NormOk([endpoint |-> res.path,
                 method |-> Upper(PyStr(Required(data, "method"))),
                 headers |-> AsMapping(Required(data, "headers")),
                 query |-> AsMapping(NormalizedQuery(data)),
                 body |-> AsMapping(Required(data, "body")),
                 notes |-> NormalizedNotes(Required(data, "notes")),
                 path_params |-> AsMapping(Required(data, "path_params"))])

\* Lines 105-113: the endpoint must be a string that is not blank
NormalizeEndpoint(data, endpoint_val) ==
    IF endpoint_val.t # "str" \/ Strip(endpoint_val.s) = <<>>
    THEN NormError(Detail("Endpoint must be a string", <<>>))
    ELSE NormalizeResolved(data, _apply_path_params(Strip(endpoint_val.s),
                                                    AsMapping(Required(data, "path_params"))))

_normalize_api_payload(data) ==
    IF data.t # "dict"
    THEN NormError(Detail("LLM response must be a JSON object", <<>>))
    ELSE NormalizeEndpoint(data.d, Required(data.d, "endpoint"))

\* ------------------------------------------ ollama_client: generate_api_call
\* HttpMethod, as the characters of each literal and as the name the executor
\* reads
HttpMethod ==
    {<<"G", "E", "T">>, <<"P", "O", "S", "T">>, <<"P", "U", "T">>,
     <<"D", "E", "L", "E", "T", "E">>}

MethodName(m) ==
    CASE m = <<"G", "E", "T">> -> "GET"
      [] m = <<"P", "O", "S", "T">> -> "POST"
      [] m = <<"P", "U", "T">> -> "PUT"
      [] m = <<"D", "E", "L", "E", "T", "E">> -> "DELETE"

\* What generate_api_call returns, or the HTTPException it raises
GenRaised(st, d) == [kind |-> "raised", status |-> st, detail |-> d]

GenReturned(c) == [kind |-> "returned", status |-> 200, detail |-> NoDetail, api_call |-> c]

InvalidJsonDetail ==
    Detail("The model response was not valid JSON. Please retry your request or clarify the desired endpoint.", <<>>)

\* Lines 162-167: APICall(**normalized), with the validators of models.APICall
GenerateValidated(n) ==
    IF n.endpoint[1] # "/"
    THEN GenRaised(500, Detail("Ollama JSON failed validation", <<"endpoint">>))
    ELSE IF n.method \notin HttpMethod
    THEN GenRaised(500, Detail("Ollama JSON failed validation", <<"method">>))
    ELSE GenReturned([endpoint |-> n.endpoint, method |-> MethodName(n.method),
                      headers |-> n.headers, path_params |-> n.path_params,
                      query |-> n.query, body |-> n.body, notes |-> n.notes])

\* (what lines 153-160 must not do: the ValueError's own message is passed on)
GenerateNormalizedNaming(n) ==
    IF ~n.ok THEN GenRaised(500, n.error) ELSE GenerateValidated(n.value)

\* Lines 150-160: a ValueError of the normalizer becomes one fixed 500
GenerateNormalized(n) ==
    IF ~n.ok THEN GenRaised(500, InvalidJsonDetail) ELSE GenerateValidated(n.value)

\* Lines 137-160 on each thing the request to Ollama can give
GenerateResult(answer, n) ==
    CASE answer.kind = "http_error" -> GenRaised(502, Detail("Ollama request failed", <<>>))
      [] answer.kind = "no_text" -> GenRaised(502, Detail("Invalid Ollama response", <<>>))
      [] answer.kind = "not_json" -> GenRaised(500, InvalidJsonDetail)
      [] answer.kind = "json" -> GenerateNormalized(n)

\* generate_api_call: answer is what httpx.post and json.loads gave
GenerateApiCall(answer) ==
    /\ llm' = answer
    /\ norm' = IF answer.kind = "json" THEN _normalize_api_payload(answer.data) ELSE NotAsked
    /\ gen' = GenerateResult(answer, norm')
    /\ UNCHANGED <<cacheVars, unitVars, callVars, origin, calls, response_json, context, insights,
                   raw_path, normal>>

\* The payloads of the model: per key, absent or one of a few JSON values
Absent == [t |-> "absent"]

EndpointOptions ==
    {Absent, JNull, JInt(5), JStr(<<"/", "x">>), JStr(<<" ", "/", "x", " ">>), JStr(<<" ">>),
     JStr(<<"x">>), JStr(<<"/", "x", "/", "{", "i", "d", "}">>)}

MethodOptions == {Absent, JNull, JStr(<<"g", "e", "t">>), JStr(<<"P", "O", "S", "T">>),
                  JStr(<<"p", "a", "t", "c", "h">>)}

HeadersOptions == {Absent, JList(<<>>), JDict("h" :> "1")}

QueryOptions == {Absent, JNull, JDict(<<>>), JDict("q" :> "1"), JStr(<<"q">>)}

QueryParamsOptions == {Absent, JNull, JDict("p" :> "1")}

BodyOptions == {Absent, JDict("b" :> "1")}

NotesOptions == {Absent, JNull, JInt(7), JStr(<<"n">>)}

PathParamsOptions ==
    {Absent, JList(<<>>), JDict(<<"i", "d">> :> JStr(<<"a", "/", "b">>)),
     JDict(<<"i", "d">> :> JInt(7))}

PayloadKeys ==
    {"endpoint", "method", "headers", "query", "query_params", "body", "notes", "path_params"}

\* The dict with the given value per key, the absent keys left out
Payload(options) ==
    JDict([k \in {x \in PayloadKeys : options[x] # Absent} |-> options[k]])

Payloads ==
    {Payload([endpoint |-> e, method |-> m, headers |-> h, query |-> q, query_params |-> qp,
              body |-> b, notes |-> n, path_params |-> pp]) :
        e \in EndpointOptions, m \in MethodOptions, h \in HeadersOptions, q \in QueryOptions,
        qp \in QueryParamsOptions, b \in BodyOptions, n \in NotesOptions,
        pp \in PathParamsOptions}

Answers ==
    {[kind |-> "http_error"], [kind |-> "no_text"], [kind |-> "not_json"],
     [kind |-> "json", data |-> JList(<<>>)]}
    \cup {[kind |-> "json", data |-> p] : p \in Payloads}

\* One run of generate_api_call, on every answer
NextNorm ==
    /\ llm = NotAsked
    /\ \E answer \in Answers : GenerateApiCall(answer)

SpecNorm == Init /\ [][NextNorm]_vars

\* C18: when the endpoint holds a {key} token that path_params has no entry
\* for, generate_api_call ends in an error whose message names the key.
C18_MissingKeyIsNamed ==
    (llm # NotAsked /\ llm.kind = "json" /\ ~norm.ok /\ norm.error.msg = "Missing path parameter")
        => /\ gen.kind = "raised"
           /\ gen.detail.args = norm.error.args


\* The payload generate_api_call was answered with, when it is a JSON object
GivenObject == llm # NotAsked /\ llm.kind = "json" /\ llm.data.t = "dict"

Given(key) == key \in DOMAIN llm.data.d

GivenAs(key, t) == Given(key) /\ llm.data.d[key].t = t

\* out is src with every lowercase letter replaced by its capital
Capitalized(src, out) ==
    /\ Len(out) = Len(src)
    /\ \A i \in 1..Len(src) :
          \/ \E j \in 1..26 : src[i] = LowerCase[j] /\ out[i] = UpperCase[j]
          \/ (\A j \in 1..26 : src[i] # LowerCase[j]) /\ out[i] = src[i]

\* query is absent from the payload received, or null, or empty
QueryLeftOut ==
    \/ ~Given("query")
    \/ GivenAs("query", "null")
    \/ GivenAs("query", "dict") /\ DOMAIN llm.data.d["query"].d = {}

\* The normalized payload is as the rules give it from the payload received
NormalizedAsRuled ==
    /\ norm.ok
    /\ DOMAIN norm.value =
          {"endpoint", "method", "headers", "query", "body", "notes", "path_params"}
    /\ Capitalized(PyStr(llm.data.d["method"]), norm.value.method)
    /\ \A key \in {"headers", "body", "path_params"} :
          norm.value[key] = IF GivenAs(key, "dict") THEN llm.data.d[key].d ELSE <<>>
    /\ (~Given("notes")) => norm.value.notes = <<>>
    /\ norm.value.query =
          IF GivenAs("query", "dict") /\ DOMAIN llm.data.d["query"].d # {}
          THEN llm.data.d["query"].d
          ELSE IF GivenAs("query_params", "dict") /\ QueryLeftOut
          THEN llm.data.d["query_params"].d
          ELSE <<>>

\* {"endpoint": "/x", "method": "get"}
ExamplePayload == JDict([endpoint |-> JStr(<<"/", "x">>), method |-> JStr(<<"g", "e", "t">>)])

ExampleNormalized ==
    llm.data = ExamplePayload =>
        norm.value = [endpoint |-> <<"/", "x">>, method |-> <<"G", "E", "T">>, headers |-> <<>>,
                      query |-> <<>>, body |-> <<>>, notes |-> <<>>, path_params |-> <<>>]

EndpointUsable ==
    /\ Strip(llm.data.d["endpoint"].s) # <<>>
    /\ _apply_path_params(Strip(llm.data.d["endpoint"].s),
                          AsMapping(Required(llm.data.d, "path_params"))).ok

FNum(n) == [nan |-> FALSE, n |-> n]

FNaN == [nan |-> TRUE, n |-> 0]

\* a < b on floats: False whenever either side is nan
FloatLt(a, b) == ~a.nan /\ ~b.nan /\ a.n < b.n

\* json.loads of the literal NaN
JFloatNaN == [t |-> "float", nan |-> TRUE]

IsDigits(s) == s # <<>> /\ \A i \in 1..Len(s) : \E d \in 1..10 : DecimalDigits[d] = s[i]

DigitValue(c) == (CHOOSE d \in 1..10 : DecimalDigits[d] = c) - 1

RECURSIVE ParseNat(_)
ParseNat(s) ==
    IF Len(s) = 1 THEN DigitValue(s[1])
    ELSE 10 * ParseNat(SubSeq(s, 1, Len(s) - 1)) + DigitValue(s[Len(s)])

LowerChar(c) ==
    IF \E i \in 1..26 : UpperCase[i] = c
    THEN LowerCase[CHOOSE i \in 1..26 : UpperCase[i] = c]
    ELSE c

\* str.lower()
LowerChars(s) == [i \in 1..Len(s) |-> LowerChar(s[i])]

\* float(s) of a str of digits and of "nan" in any case; ValueError (None here)
\* for the other strs of the model, which hold no sign, point or exponent
ParseFloat(s) ==
    IF IsDigits(s) THEN FNum(ParseNat(s))
    ELSE IF LowerChars(s) = <<"n", "a", "n">> THEN FNaN
    ELSE PyNone

\* value.replace(",", "")
RemoveCommas(s) == SelectSeq(s, LAMBDA c : c # ",")

_as_number(value) ==
    CASE value.t = "int" -> FNum(value.n)
      [] value.t = "float" -> PyNone
      [] value.t = "str" -> ParseFloat(Strip(RemoveCommas(value.s)))
      [] OTHER -> PyNone

\* ------------------------------------------------------ summarizer: list.sort
\* list.sort(key=lambda pair: pair[0], reverse=reverse) on a list shorter than
\* 64: the list is reversed when reverse is set, the leading run is found and
\* the rest inserted by binary search, and the list is reversed back.
Reverse(a) == [i \in 1..Len(a) |-> a[Len(a) + 1 - i]]

\* The length of the leading run: strictly descending when a[2] < a[1], else
\* non-descending
RunLength(a, descending) ==
    IF Len(a) < 2 THEN Len(a)
    ELSE CHOOSE k \in 2..Len(a) :
            /\ \A i \in 2..k : FloatLt(a[i].val, a[i - 1].val) = descending
            /\ k < Len(a) => FloatLt(a[k + 1].val, a[k].val) # descending

RunDescending(a) == Len(a) >= 2 /\ FloatLt(a[2].val, a[1].val)

\* The list with its leading run made ascending
WithRun(a, n) ==
    IF RunDescending(a) THEN Reverse(SubSeq(a, 1, n)) \o SubSeq(a, n + 1, Len(a)) ELSE a

RECURSIVE BinarySearch(_, _, _, _)
\* Where the pivot goes among a[1..r]: l and r count the elements to the left
BinarySearch(a, pivot, l, r) ==
    IF l >= r THEN l
    ELSE IF FloatLt(pivot.val, a[l + ((r - l) \div 2) + 1].val)
    THEN BinarySearch(a, pivot, l, l + ((r - l) \div 2))
    ELSE BinarySearch(a, pivot, l + ((r - l) \div 2) + 1, r)

InsertAt(a, start, l) ==
    SubSeq(a, 1, l) \o <<a[start]>> \o SubSeq(a, l + 1, start - 1) \o SubSeq(a, start + 1, Len(a))

RECURSIVE BinarySort(_, _)
\* a[1..start-1] is sorted; insert a[start], a[start+1], ...
BinarySort(a, start) ==
    IF start > Len(a) THEN a
    ELSE BinarySort(InsertAt(a, start, BinarySearch(a, a[start], 0, start - 1)), start + 1)

SortRun(a, n) == BinarySort(WithRun(a, n), n + 1)

SortAscending(a) == SortRun(a, RunLength(a, RunDescending(a)))

ListSort(a, reverse) == IF reverse THEN Reverse(SortAscending(Reverse(a))) ELSE SortAscending(a)


\* ------------------------------------------------------ summarizer: dates
\* The formats _as_date tries, in order; chars is len(fmt), the length of the
\* format string itself, to which the value is cut before it is parsed.
DateFormats ==
    <<[fmt |-> "%Y-%m-%d", chars |-> 8, sep |-> "-", fields |-> 3],
      [fmt |-> "%Y/%m/%d", chars |-> 8, sep |-> "/", fields |-> 3],
      [fmt |-> "%Y-%m", chars |-> 5, sep |-> "-", fields |-> 2],
      [fmt |-> "%Y", chars |-> 2, sep |-> "", fields |-> 1]>>

\* %m: 1[0-2]|0[1-9]|[1-9]
IsMonth(s) == IsDigits(s) /\ Len(s) \in {1, 2} /\ ParseNat(s) \in 1..12

\* %d: 3[0-1]|[1-2]\d|0[1-9]|[1-9]| [1-9]
IsDay(s) ==
    \/ IsDigits(s) /\ Len(s) \in {1, 2} /\ ParseNat(s) \in 1..31
    \/ Len(s) = 2 /\ s[1] = " " /\ IsDigits(<<s[2]>>) /\ s[2] # "0"

DayValue(s) == IF s[1] = " " THEN DigitValue(s[2]) ELSE ParseNat(s)

IsLeap(y) == (y % 4 = 0 /\ y % 100 # 0) \/ y % 400 = 0

DaysIn(y, m) ==
    IF m = 2 THEN (IF IsLeap(y) THEN 29 ELSE 28)
    ELSE IF m \in {4, 6, 9, 11} THEN 30 ELSE 31

\* datetime(y, m, d), ValueError (None here) when there is no such day
MakeDate(y, m, d) ==
    IF y >= 1 /\ d <= DaysIn(y, m) THEN [y |-> y, m |-> m, d |-> d] ELSE PyNone

\* datetime.strptime(s, fmt): the whole of s must match; ValueError is None
Strptime(s, f) ==
    IF Len(s) < 4 \/ ~IsDigits(SubSeq(s, 1, 4)) THEN PyNone
    ELSE IF f.fields = 1
    THEN (IF Len(s) = 4 THEN MakeDate(ParseNat(s), 1, 1) ELSE PyNone)
    ELSE IF f.fields = 2
    THEN (IF Len(s) > 5 /\ s[5] = f.sep /\ IsMonth(SubSeq(s, 6, Len(s)))
          THEN MakeDate(ParseNat(SubSeq(s, 1, 4)), ParseNat(SubSeq(s, 6, Len(s))), 1)
          ELSE PyNone)
    ELSE IF \E j \in 7..(Len(s) - 1) :
               /\ s[5] = f.sep /\ s[j] = f.sep
               /\ IsMonth(SubSeq(s, 6, j - 1)) /\ IsDay(SubSeq(s, j + 1, Len(s)))
    THEN MakeDate(ParseNat(SubSeq(s, 1, 4)),
                  ParseNat(SubSeq(s, 6, FirstOf(s, {f.sep}, 6) - 1)),
                  DayValue(SubSeq(s, FirstOf(s, {f.sep}, 6) + 1, Len(s))))
    ELSE PyNone

\* value[: n]
Prefix(s, n) == SubSeq(s, 1, IF n < Len(s) THEN n ELSE Len(s))

RECURSIVE AsDateFrom(_, _)
AsDateTried(s, i, date) == IF date # PyNone THEN date ELSE AsDateFrom(s, i + 1)

AsDateFrom(s, i) ==
    IF i > Len(DateFormats) THEN PyNone
    ELSE AsDateTried(s, i, Strptime(Prefix(s, DateFormats[i].chars), DateFormats[i]))

_as_date(value) == IF value.t # "str" THEN PyNone ELSE AsDateFrom(value.s, 1)

\* The order of datetimes, as the order of numbers
DateNumber(date) == FNum(date.y * 10000 + date.m * 100 + date.d)

\* ------------------------------------------------------ summarizer: ranking
RECURSIVE FirstListUnder(_, _, _)
FirstListUnder(d, keys, i) ==
    IF i > Len(keys) THEN <<>>
    ELSE IF keys[i] \in DOMAIN d /\ d[keys[i]].t = "list" THEN d[keys[i]].l
    ELSE FirstListUnder(d, keys, i + 1)

_get_list_from_response(r) ==
    CASE r.t = "list" -> r.l
      [] r.t = "dict" -> FirstListUnder(r.d, <<"results", "data", "list", "items">>, 1)
      [] OTHER -> <<>>

\* word in text
Contains(text, word) ==
    \E i \in 0..(Len(text) - Len(word)) : SubSeq(text, i + 1, i + Len(word)) = word

MovieWords ==
    {<<"m", "o", "v", "i", "e">>, <<"f", "i", "l", "m">>, <<"t", "m", "d", "b">>, <<"t", "v">>}

FinanceWords ==
    {<<"c", "o", "i", "n">>, <<"s", "t", "o", "c", "k">>, <<"f", "i", "n", "a", "n", "c", "e">>,
     <<"c", "r", "y", "p", "t", "o">>, <<"m", "a", "r", "k", "e", "t">>}

WeatherWords ==
    {<<"w", "e", "a", "t", "h", "e", "r">>, <<"f", "o", "r", "e", "c", "a", "s", "t">>,
     <<"t", "e", "m", "p", "e", "r", "a", "t", "u", "r", "e">>, <<"r", "a", "i", "n">>}

DomainOf(text) ==
    IF \E w \in MovieWords : Contains(text, w) THEN "movies"
    ELSE IF \E w \in FinanceWords : Contains(text, w) THEN "finance"
    ELSE IF \E w \in WeatherWords : Contains(text, w) THEN "weather"
    ELSE "generic"

_infer_domain(ctx) ==
    DomainOf(LowerChars(DictGet(ctx, "user_query", <<>>) \o <<" ">> \o DictGet(ctx, "api_name", <<>>)))

RECURSIVE ItemNameFrom(_, _, _)
ItemNameFrom(item, keys, i) ==
    IF i > Len(keys) THEN <<"i", "t", "e", "m">>
    ELSE IF keys[i] \in DOMAIN item /\ ~Falsy(item[keys[i]]) THEN PyStr(item[keys[i]])
    ELSE ItemNameFrom(item, keys, i + 1)

_item_name(item) == ItemNameFrom(item, <<"title", "name", "id", "symbol">>, 1)

\* The sort keys of a domain in the order they are tried; all sort descending
_sort_candidates_for_domain(domain) ==
    CASE domain = "movies" ->
            <<"vote_average", "rating", "popularity", "release_date", "first_air_date">>
      [] domain = "finance" ->
            <<"market_cap", "marketCap", "current_price", "regularMarketPrice", "price",
              "price_change_24h">>
      [] domain = "weather" -> <<"temp", "temperature", "humidity">>
      [] OTHER -> <<"score", "rank", "popularity">>

RECURSIVE ChooseFrom(_, _, _)
ChooseFrom(items, keys, i) ==
    IF i > Len(keys) THEN [key |-> "", descending |-> TRUE]
    ELSE IF \E n \in 1..Len(items) : keys[i] \in DOMAIN items[n]
    THEN [key |-> keys[i], descending |-> TRUE]
    ELSE ChooseFrom(items, keys, i + 1)

\* _choose_sort_key: [key, descending], the key "" when it is None
_choose_sort_key(items, domain) == ChooseFrom(items, _sort_candidates_for_domain(domain), 1)

\* item.get(key)
ItemGet(item, key) == DictGet(item, key, JNull)

\* The pairs (number, item) of the items whose value under key is a number
Pair(val, item) == [val |-> val, item |-> item]

Scored(items, key) ==
    SelectSeq([n \in 1..Len(items) |-> Pair(_as_number(ItemGet(items[n], key)), items[n])],
              LAMBDA p : p.val # PyNone)

Dated(items, key) ==
    SelectSeq([n \in 1..Len(items) |-> Pair(_as_date(ItemGet(items[n], key)), items[n])],
              LAMBDA p : p.val # PyNone)

\* sortable[:5] is kept
TopLimit == 5

MetadataKeys ==
    {"vote_count", "popularity", "release_date", "first_air_date", "market_cap",
     "current_price", "regularMarketPrice", "symbol", "id", "title", "name", "overview"}

\* Lines 133-146: the entries of top_items, from the sorted pairs
TopItems(sortable, sort_key) ==
    [idx \in 1..(IF Len(sortable) < TopLimit THEN Len(sortable) ELSE TopLimit) |->
        [rank |-> idx, name |-> _item_name(sortable[idx].item), score_key |-> sort_key,
         score |-> sortable[idx].val,
         metadata |-> DictRestrict(sortable[idx].item, MetadataKeys \cup {sort_key})]]

\* Lines 123-148: insights after the ranking; with a sort key and nothing
\* sortable, top_items is not set
WithSortable(ins, sortable, chosen) ==
    IF sortable = <<>> THEN ins
    ELSE DictSet(ins, "top_items", TopItems(ListSort(sortable, chosen.descending), chosen.key))

WithTopItems(ins, items, chosen) ==
    IF chosen.key = "" THEN DictSet(ins, "top_items", <<>>)
    ELSE WithSortable(ins, Scored(items, chosen.key), chosen)

\* ------------------------------------------------------ summarizer: metrics
\* _collect_metric: the item of the first pair after the sort, None if none
FirstSorted(scored, reverse) ==
    IF scored = <<>> THEN PyNone ELSE ListSort(scored, reverse)[1].item

_collect_metric(items, key, reverse) == FirstSorted(Scored(items, key), reverse)

DatePairs(pairs) == [n \in 1..Len(pairs) |-> Pair(DateNumber(pairs[n].val), pairs[n].item)]

_collect_date_metric(items, key) == FirstSorted(DatePairs(Dated(items, key)), TRUE)

\* metrics_keys, in the order of the dict
MetricsKeys ==
    <<[label |-> "top_by_rating", key |-> "vote_average", reverse |-> TRUE],
      [label |-> "top_by_popularity", key |-> "popularity", reverse |-> TRUE],
      [label |-> "lowest_price", key |-> "current_price", reverse |-> FALSE],
      [label |-> "highest_market_cap", key |-> "market_cap", reverse |-> TRUE]>>

Metric(best, key) == [name |-> _item_name(best), value |-> ItemGet(best, key), raw |-> best]

\* Lines 158-161: one entry of metrics_keys; an empty dict counts as no item
WithMetric(metrics, mk, best) ==
    IF best \in {PyNone, <<>>} THEN metrics ELSE DictSet(metrics, mk.label, Metric(best, mk.key))

RECURSIVE WithMetricsFrom(_, _, _)
WithMetricsFrom(metrics, items, i) ==
    IF i > Len(MetricsKeys) THEN metrics
    ELSE WithMetricsFrom(WithMetric(metrics, MetricsKeys[i],
                                    _collect_metric(items, MetricsKeys[i].key,
                                                    MetricsKeys[i].reverse)),
                         items, i + 1)

DateKeys == <<"release_date", "first_air_date", "date", "timestamp">>

RECURSIVE WithMostRecent(_, _, _)
WithRecent(metrics, items, i, recent) ==
    IF recent \in {PyNone, <<>>} THEN WithMostRecent(metrics, items, i + 1)
    ELSE DictSet(metrics, "most_recent", Metric(recent, DateKeys[i]))

\* Lines 163-168: the first date key under which some item holds a date
WithMostRecent(metrics, items, i) ==
    IF i > Len(DateKeys) THEN metrics
    ELSE WithRecent(metrics, items, i, _collect_date_metric(items, DateKeys[i]))

\* Lines 170-173
WithMetrics(ins, metrics) ==
    IF DOMAIN metrics = {} THEN ins ELSE DictSet(ins, "metrics", metrics)

\* ------------------------------------------- summarizer: extract_relevant_items
\* Lines 123-173, on a list that holds some dict
ExtractFromItems(ins, items) ==
    WithMetrics(WithTopItems(ins, items, _choose_sort_key(items, ins.domain)),
                WithMostRecent(WithMetricsFrom(<<>>, items, 1), items, 1))

DictsOf(items) == [n \in 1..Len(items) |-> items[n].d]

\* Lines 115-121
ExtractFromList(items_raw, domain) ==
    IF \A n \in 1..Len(items_raw) : items_raw[n].t # "dict"
    THEN [domain |-> domain, item_count |-> Len(items_raw), top_items |-> <<>>]
    ELSE ExtractFromItems([domain |-> domain, item_count |-> Len(items_raw)],
                          DictsOf(SelectSeq(items_raw, LAMBDA v : v.t = "dict")))

extract_relevant_items(r, ctx) ==
    ExtractFromList(_get_list_from_response(r), _infer_domain(ctx))

ExtractRelevantItems(r, ctx) ==
    /\ response_json' = r
    /\ context' = ctx
    /\ insights' = extract_relevant_items(r, ctx)
    /\ UNCHANGED <<cacheVars, unitVars, callVars, origin, calls, llm, norm, gen, raw_path, normal>>


\* The responses of the model: lists of at most MaxItems elements, each a
\* movie with a rating (a number, a str of digits, "nan", null) or not a dict
MaxItems == TopLimit + 1

ItemA == JDict([name |-> JStr(<<"A">>), vote_average |-> JInt(9)])

ItemB == JDict([name |-> JStr(<<"B">>), vote_average |-> JInt(7)])

ItemC == JDict([title |-> JStr(<<"C">>), vote_average |-> JStr(<<" ", "9">>)])

ItemD == JDict([name |-> JStr(<<"D">>), vote_average |-> JStr(<<"n", "a", "n">>)])

ItemE == JDict([name |-> JStr(<<"E">>), vote_average |-> JNull, popularity |-> JInt(5)])

Elements == {ItemA, ItemB, ItemC, ItemD, ItemE, JInt(1)}

Rated == {ItemA, ItemB, ItemC, ItemD}

\* Every list of at most 3 elements, and the longer lists of rated items
Lists ==
    UNION {[1..n -> Elements] : n \in 0..3} \cup UNION {[1..n -> Rated] : n \in 4..MaxItems}

\* Items that hold a date: zero-padded, unpadded, with slashes, a year, a month
ItemP == JDict([name |-> JStr(<<"P">>), release_date |-> JStr(<<"2", "0", "2", "0", "-", "0", "1", "-", "0", "1">>)])

ItemQ == JDict([name |-> JStr(<<"Q">>), release_date |-> JStr(<<"2", "0", "2", "1", "-", "1", "-", "5">>)])

ItemR == JDict([name |-> JStr(<<"R">>), first_air_date |-> JStr(<<"2", "0", "1", "9", "/", "3", "/", "4">>)])

ItemS == JDict([name |-> JStr(<<"S">>), date |-> JStr(<<"2", "0", "2", "2">>)])

ItemT == JDict([name |-> JStr(<<"T">>), release_date |-> JStr(<<"2", "0", "2", "1", "-", "1", "-", "1", "5">>)])

ItemU == JDict([name |-> JStr(<<"U">>), timestamp |-> JStr(<<"2", "0", "2", "3", "-", "1", "1">>)])

DatedElements == {ItemP, ItemQ, ItemR, ItemS, ItemT, ItemU}

DatedLists == UNION {[1..n -> DatedElements] : n \in 1..3}

Responses ==
    {JList(l) : l \in Lists \cup DatedLists}
    \cup {JDict([results |-> JList(<<ItemB, ItemA>>)]),
          JDict([total |-> JInt(2), items |-> JList(<<ItemA, ItemE>>)]),
          JDict([data |-> JInt(1)]), JNull}

Contexts ==
    {[user_query |-> <<"b", "e", "s", "t", " ", "F", "i", "l", "m", "s">>, api_name |-> <<"x">>],
     [user_query |-> <<"h", "i">>, api_name |-> <<"x">>]}

\* One run of extract_relevant_items, on every response and context
NextRank ==
    /\ response_json = NotAsked
    /\ \E r \in Responses, ctx \in Contexts : ExtractRelevantItems(r, ctx)

SpecRank == Init /\ [][NextRank]_vars

\* The dict items of the response given, and the sort key chosen for them
GivenItems ==
    DictsOf(SelectSeq(_get_list_from_response(response_json), LAMBDA v : v.t = "dict"))

ChosenKey == _choose_sort_key(GivenItems, insights.domain).key

\* The dict items whose value at the chosen sort key coerces to a number, with
\* that number
Coerced == Scored(GivenItems, ChosenKey)

AtLeast(pairs, v) == Cardinality({n \in 1..Len(pairs) : ~FloatLt(pairs[n].val, v) /\ ~pairs[n].val.nan})

TopScores == [i \in 1..Len(insights.top_items) |-> [val |-> insights.top_items[i].score]]

\* C20: extract_relevant_items ranks the dict items whose value at the chosen
\* sort key coerces to a number in descending order of that number, keeps at
\* most 5 of them, and numbers them 1, 2, ... in that order; for
\* [{name A, vote_average 9}, {name B, vote_average 7}] and domain movies the
\* rank-1 item is A with score 9.
C20_TopItemsRankedDescending ==
    (response_json # NotAsked /\ GivenItems # <<>> /\ ChosenKey # "" /\ Coerced # <<>>) =>
        /\ "top_items" \in DOMAIN insights
        /\ Len(insights.top_items) = (IF Len(Coerced) < 5 THEN Len(Coerced) ELSE 5)
        /\ \A i \in 1..Len(insights.top_items) :
              /\ insights.top_items[i].rank = i
              /\ \E n \in 1..Len(Coerced) :
                    /\ insights.top_items[i].score = Coerced[n].val
                    /\ insights.top_items[i].name = _item_name(Coerced[n].item)
              /\ \A j \in (i + 1)..Len(insights.top_items) :
                    ~FloatLt(insights.top_items[i].score, insights.top_items[j].score)
        /\ \A n \in 1..Len(Coerced) :
              Coerced[n].val.nan \/
              AtLeast(TopScores, Coerced[n].val) =
                  (IF AtLeast(Coerced, Coerced[n].val) < 5 THEN AtLeast(Coerced, Coerced[n].val)
                   ELSE 5)
        /\ (response_json = JList(<<ItemA, ItemB>>) /\ insights.domain = "movies") =>
              /\ insights.top_items[1].name = <<"A">>
              /\ insights.top_items[1].score = FNum(9)


\* C21: extract_relevant_items always returns an insight with a top_items
\* list: for an empty list top_items is empty and item_count is 0, and when no
\* item's value at the chosen sort key is a number, top_items is there and empty.
C21_TopItemsAlwaysPresent ==
    response_json # NotAsked =>
        /\ "top_items" \in DOMAIN insights
        /\ response_json = JList(<<>>) => insights.top_items = <<>> /\ insights.item_count = 0
        /\ (GivenItems # <<>> /\ ChosenKey # "" /\ Coerced = <<>>) => insights.top_items = <<>>


RECURSIVE WholeDateFrom(_, _)
WholeDateFrom(s, i) ==
    IF i > Len(DateFormats) THEN PyNone
    ELSE IF Strptime(s, DateFormats[i]) # PyNone THEN Strptime(s, DateFormats[i])
    ELSE WholeDateFrom(s, i + 1)

\* The date a value is, read as a whole in one of the four formats
\* (YYYY-MM-DD, YYYY/MM/DD, YYYY-MM, YYYY); None when it is not one
WholeDate(value) == IF value.t # "str" THEN PyNone ELSE WholeDateFrom(value.s, 1)

DateAt(n, key) == WholeDate(ItemGet(GivenItems[n], key))

HoldsDate(key) == \E n \in 1..Len(GivenItems) : DateAt(n, key) # PyNone

\* The first of the date fields under which some item given holds a date
FirstDateField ==
    DateKeys[CHOOSE i \in 1..Len(DateKeys) :
                /\ HoldsDate(DateKeys[i])
                /\ \A j \in 1..(i - 1) : ~HoldsDate(DateKeys[j])]

\* C22: whenever some item holds a date in one of the four formats under
\* release_date, first_air_date, date or timestamp, the metric most_recent is
\* present, taken from the first such field, and it is the item with the
\* maximum date under that field.
C22_MostRecentIsLatestDate ==
    (response_json # NotAsked /\ \E i \in 1..Len(DateKeys) : HoldsDate(DateKeys[i])) =>
        /\ "metrics" \in DOMAIN insights
        /\ "most_recent" \in DOMAIN insights.metrics
        /\ \E n \in 1..Len(GivenItems) :
              /\ insights.metrics.most_recent.raw = GivenItems[n]
              /\ insights.metrics.most_recent.value = ItemGet(GivenItems[n], FirstDateField)
              /\ DateAt(n, FirstDateField) # PyNone
              /\ \A m \in 1..Len(GivenItems) :
                    DateAt(m, FirstDateField) # PyNone =>
                        ~FloatLt(DateNumber(DateAt(n, FirstDateField)),
                                 DateNumber(DateAt(m, FirstDateField)))


\* ------------------------------------------------ _normalize_path on its own
\* _normalize_path on p, on its own result, and on p with a slash appended
NormalizePath(p) ==
    /\ raw_path' = p
    /\ normal' = [once |-> _normalize_path(p),
                  twice |-> _normalize_path(_normalize_path(p)),
                  slashed |-> _normalize_path(p \o <<"/">>)]
    /\ UNCHANGED <<cacheVars, unitVars, callVars, origin, calls, llm, norm, gen, response_json,
                   context, insights>>

\* Every string over PathChars one longer than the endpoints of the calls
MaxRawLen == MaxPathLen + 1

RawPaths == UNION {[1..k -> PathChars] : k \in 0..MaxRawLen}

NextPath ==
    /\ normal = NotAsked
    /\ \E p \in RawPaths : NormalizePath(p)

SpecPath == Init /\ [][NextPath]_vars

\* C23: _normalize_path is idempotent, a path and the same path with a
\* trailing slash normalize to the same value, and the empty path and "/" both
\* normalize to "/".
C23_NormalizeIdempotent ==
    normal # NotAsked =>
        /\ normal.twice = normal.once
        /\ normal.slashed = normal.once
        /\ raw_path \in {<<>>, <<"/">>} => normal.once = <<"/">>


\* ------------------------------------------------- the caller's APICall
\* C24: execute_api_call changes nothing of the caller's APICall but its
\* endpoint field: headers, query, body and path_params (and the method) are
\* after the call what they were before it, whether it returned or raised, so
\* neither the secret nor a default parameter is written into the call; the
\* endpoint is the path with the placeholders substituted, or the endpoint as
\* given when the method was refused or a path parameter was missing.
C24_OnlyEndpointIsWritten ==
    calls > 0 =>
        /\ call.headers = req.call.headers
        /\ call.query = req.call.query
        /\ call.body = req.call.body
        /\ call.path_params = req.call.path_params
        /\ call.method = req.call.method
        /\ IF /\ req.call.method \in ALLOWED_METHODS
              /\ _resolve_endpoint(req.call.endpoint, req.call.path_params).ok
           THEN call.endpoint = _resolve_endpoint(req.call.endpoint, req.call.path_params).path
           ELSE call.endpoint = req.call.endpoint

\* A finished call with a caller-given query and body that nothing filtered,
\* whose working query holds the secret while the caller's query does not
C24_Witness ==
    /\ pc = "done"
    /\ req.call.query # <<>>
    /\ req.call.body # <<>>
    /\ loc.matched # 0
    /\ req.api.auth_type = "query"
    /\ req.api.auth_key_name \in DOMAIN loc.query
    /\ loc.query[req.api.auth_key_name] = req.api_key
    /\ req.api.auth_key_name \notin DOMAIN call.query
    /\ loc.body = req.call.body


\* ------------------------------------------------- bodies that are not JSON
\* The server of Spec with an upstream whose 2xx answers may carry any bytes
NextBody ==
    \/ ExecuteCall
    \/ AttemptSucceeds
    \/ AttemptUndecodable
    \/ AttemptProxyError
    \/ AttemptTransportError
    \/ AttemptStatusError
    \/ Return
    \/ Tick

SpecBody == Init /\ [][NextBody]_vars

\* The last attempt of the call was answered with a 2xx status
Answered2xx == attempts # <<>> /\ ~Failed(attempts[Len(attempts)])

\* {"text": response.text}
Wrapped(text) == [kind |-> "text", v |-> text]

\* The cache holds value under the key of the running call
StoredForCall(value) ==
    /\ loc.cache_key \in StoreKeys(store)
    /\ store[StoreIndex(store, loc.cache_key)].value = value

\* The calls answered with a body that is text but not a JSON document
ReturnedNonJson ==
    /\ pc = "done" /\ ~result.raised /\ ~result.metadata.from_cache
    /\ result.metadata.response_preview \notin JsonTexts

\* A GET call just looked up, identical to an earlier one that fetched a body
\* that is not JSON, within the TTL and with no eviction in between
FollowsNonJson ==
    /\ LookedUp
    /\ loc.cache_key \in DOMAIN origin
    /\ SameRequestAs(origin[loc.cache_key])
    /\ origin[loc.cache_key].parsed.kind = "text"
    /\ now - origin[loc.cache_key].at <= Ttl
    /\ Cardinality(DOMAIN origin) <= MaxSize

\* The body that is not JSON is returned wrapped, is cached for a GET call, and
\* is what the cache then serves
NonJsonIsWrappedAndCached ==
    /\ ReturnedNonJson =>
          /\ result.parsed = Wrapped(result.metadata.response_preview)
          /\ call.method = "GET" => StoredForCall(result.parsed)
    /\ FollowsNonJson =>
          /\ pc = "done" /\ ~result.raised
          /\ result.metadata.from_cache
          /\ result.parsed = origin[loc.cache_key].parsed

\* C25: a 2xx answer whose body is not valid JSON does not fail the call: the
\* call returns {"text": body} with from_cache false; for a GET call that value
\* is stored in the cache, and a following identical call returns it.
C25_NonJsonBodyDoesNotFail ==
    /\ Answered2xx => (pc = "done" /\ ~result.raised /\ ~result.metadata.from_cache)
    /\ NonJsonIsWrappedAndCached

====
